---- MODULE Spec2Model ----
(***************************************************************************)
(* A model of the regulatory change tracker: RegulatoryTracker of          *)
(* reg_scraper.py (snapshot table, change log, detect_changes and its      *)
(* helpers, get_recent_changes) and AIEnhancer and AIEnhancedTracker of    *)
(* ai_enhancer.py.  Texts are sequences of one-character strings, so that  *)
(* lower-casing, substring search, sentence and line splitting are the     *)
(* operations the Python code performs.                                    *)
(***************************************************************************)
EXTENDS Integers, Sequences, FiniteSets, TLC

(***************************************************************************)
(* Bounds of the model.                                                    *)
(***************************************************************************)
\* Largest number of items in one scraped batch.
MaxBatch == 2
\* Largest value of the clock: every call and every processed item takes one tick.
MaxClock == 6

(***************************************************************************)
(* Text primitives (Python str operations).                                *)
(***************************************************************************)
Upper == <<"A","B","C","D","E","F","G","H","I","J","K","L","M",
           "N","O","P","Q","R","S","T","U","V","W","X","Y","Z">>
LowerOf == <<"a","b","c","d","e","f","g","h","i","j","k","l","m",
             "n","o","p","q","r","s","t","u","v","w","x","y","z">>

\* str.lower() on one character.
LowerChar(ch) ==
    IF \E i \in DOMAIN Upper : Upper[i] = ch
    THEN LowerOf[CHOOSE i \in DOMAIN Upper : Upper[i] = ch]
    ELSE ch

\* str.lower()
Lower(t) == [i \in DOMAIN t |-> LowerChar(t[i])]

\* Python's `k in t` on strings: k occurs as a contiguous substring of t.
Contains(t, k) ==
    \E i \in 0..(Len(t) - Len(k)) : SubSeq(t, i + 1, i + Len(k)) = k

\* any(keyword in text for keyword in keywords)
AnyKeyword(text, keywords) ==
    \E i \in DOMAIN keywords : Contains(text, keywords[i])

\* Characters str.strip() removes and str.splitlines() breaks on.
Whitespace == {" ", "\n", "\r", "\t"}
LineBreaks == {"\n", "\r"}

RECURSIVE LStrip(_)
LStrip(t) == IF t # <<>> /\ Head(t) \in Whitespace THEN LStrip(Tail(t)) ELSE t

RECURSIVE RStrip(_)
RStrip(t) ==
    IF t # <<>> /\ t[Len(t)] \in Whitespace THEN RStrip(SubSeq(t, 1, Len(t) - 1)) ELSE t

\* str.strip()
Strip(t) == RStrip(LStrip(t))

\* sep.join(parts)
RECURSIVE Join(_, _)
Join(parts, sep) ==
    IF parts = <<>> THEN <<>>
    ELSE IF Len(parts) = 1 THEN parts[1]
    ELSE parts[1] \o sep \o Join(Tail(parts), sep)

\* The k-th smallest element of a set of integers.
Nth(S, k) == CHOOSE i \in S : Cardinality({j \in S : j < i}) = k - 1

\* str.split(sep) for a one-character separator: the pieces between the
\* occurrences of sep, always at least one piece.
Split(t, sep) ==
    LET at == {i \in DOMAIN t : t[i] = sep}
        n == Cardinality(at)
        lo(k) == IF k = 1 THEN 1 ELSE Nth(at, k - 1) + 1
        hi(k) == IF k = n + 1 THEN Len(t) ELSE Nth(at, k) - 1
    IN  [k \in 1..(n + 1) |-> SubSeq(t, lo(k), hi(k))]

\* str.splitlines(): a line ends at "\n", "\r" or "\r\n"; the terminator is
\* dropped; there is no empty last line after a final terminator, and the
\* empty string has no lines.
splitlines(t) ==
    LET ends == {i \in DOMAIN t :
                    /\ t[i] \in LineBreaks
                    /\ ~(t[i] = "\r" /\ i < Len(t) /\ t[i + 1] = "\n")}
        n == Cardinality(ends)
        lo(k) == IF k = 1 THEN 1 ELSE Nth(ends, k - 1) + 1
        crlf(e) == t[e] = "\n" /\ e - 1 >= 1 /\ t[e - 1] = "\r"
        hi(k) == IF k = n + 1 THEN Len(t)
                 ELSE LET e == Nth(ends, k)
                      IN  IF crlf(e) /\ e - 1 >= lo(k) THEN e - 2 ELSE e - 1
        last == IF n = 0 THEN 0 ELSE Nth(ends, n)
        count == IF last < Len(t) THEN n + 1 ELSE n
    IN  [k \in 1..count |-> SubSeq(t, lo(k), hi(k))]

\* str(n) for a natural number, as a text.
DigitChars == <<"0","1","2","3","4","5","6","7","8","9">>
RECURSIVE Digits(_)
Digits(n) ==
    IF n < 10 THEN <<DigitChars[n + 1]>>
    ELSE Digits(n \div 10) \o <<DigitChars[(n % 10) + 1]>>

\* datetime.isoformat(): the fields of the time, most significant first,
\* each zero-padded to a fixed width.  The clock of the model has one field
\* of two digits.
isoformat(t) == <<DigitChars[(t \div 10) + 1], DigitChars[(t % 10) + 1]>>

Min(a, b) == IF a < b THEN a ELSE b
Max(a, b) == IF a > b THEN a ELSE b

(***************************************************************************)
(* difflib.SequenceMatcher and difflib.unified_diff over lists of lines.   *)
(* Indices are Python's: 0-based, ranges half-open; element i of a list s  *)
(* is s[i + 1].                                                            *)
(***************************************************************************)
\* Context lines of unified_diff(..., n=3).
DiffContext == 3

\* a[i:i+k] == b[j:j+k]
SameRun(a, b, i, j, k) == \A d \in 0..(k - 1) : a[i + d + 1] = b[j + d + 1]

\* SequenceMatcher.find_longest_match without junk: the longest common run in
\* a[alo:ahi], b[blo:bhi]; of the longest, the one starting earliest in a, and
\* of those the one starting earliest in b; (alo, blo, 0) when there is none.
find_longest_match(a, b, alo, ahi, blo, bhi) ==
    LET Cands == {m \in (alo..(ahi - 1)) \X (blo..(bhi - 1)) \X (1..Min(ahi - alo, bhi - blo)) :
                      /\ m[1] + m[3] <= ahi
                      /\ m[2] + m[3] <= bhi
                      /\ SameRun(a, b, m[1], m[2], m[3])}
        Better(m, o) == \/ m[3] > o[3]
                        \/ m[3] = o[3] /\ m[1] < o[1]
                        \/ m[3] = o[3] /\ m[1] = o[1] /\ m[2] <= o[2]
    IN  IF Cands = {} THEN <<alo, blo, 0>>
        ELSE CHOOSE m \in Cands : \A o \in Cands : Better(m, o)

\* SequenceMatcher.get_matching_blocks, without the closing (la, lb, 0) block:
\* the longest match, then recursively the matches left and right of it.
RECURSIVE matching_blocks(_, _, _, _, _, _)
matching_blocks(a, b, alo, ahi, blo, bhi) ==
    LET m == find_longest_match(a, b, alo, ahi, blo, bhi)
        i == m[1]
        j == m[2]
        k == m[3]
    IN  IF k = 0 THEN <<>>
        ELSE (IF alo < i /\ blo < j THEN matching_blocks(a, b, alo, i, blo, j) ELSE <<>>)
             \o <<m>>
             \o (IF i + k < ahi /\ j + k < bhi
                 THEN matching_blocks(a, b, i + k, ahi, j + k, bhi) ELSE <<>>)

\* SequenceMatcher.get_opcodes: walk the matching blocks, (i, j) the position
\* reached in a and b.
RECURSIVE opcodes_from(_, _, _)
opcodes_from(blocks, i, j) ==
    IF blocks = <<>> THEN <<>>
    ELSE LET ai == blocks[1][1]
             bj == blocks[1][2]
             size == blocks[1][3]
             tag == IF i < ai /\ j < bj THEN "replace"
                    ELSE IF i < ai THEN "delete"
                    ELSE IF j < bj THEN "insert"
                    ELSE ""
         IN  (IF tag # "" THEN <<[tag |-> tag, i1 |-> i, i2 |-> ai, j1 |-> j, j2 |-> bj]>>
              ELSE <<>>)
             \o (IF size > 0
                 THEN <<[tag |-> "equal", i1 |-> ai, i2 |-> ai + size,
                         j1 |-> bj, j2 |-> bj + size]>>
                 ELSE <<>>)
             \o opcodes_from(Tail(blocks), ai + size, bj + size)

get_opcodes(a, b) ==
    opcodes_from(Append(matching_blocks(a, b, 0, Len(a), 0, Len(b)), <<Len(a), Len(b), 0>>),
                 0, 0)

\* SequenceMatcher.get_grouped_opcodes: the loop over the (already trimmed)
\* opcodes, splitting at every equal run longer than 2n.
RECURSIVE group_loop(_, _, _)
group_loop(codes, group, n) ==
    IF codes = <<>>
    THEN (IF group # <<>> /\ ~(Len(group) = 1 /\ group[1].tag = "equal")
          THEN <<group>> ELSE <<>>)
    ELSE LET c == Head(codes)
         IN  IF c.tag = "equal" /\ c.i2 - c.i1 > n + n
             THEN <<Append(group, [c EXCEPT !.i2 = Min(c.i2, c.i1 + n),
                                            !.j2 = Min(c.j2, c.j1 + n)])>>
                  \o group_loop(Tail(codes),
                                <<[c EXCEPT !.i1 = Max(c.i1, c.i2 - n),
                                            !.j1 = Max(c.j1, c.j2 - n)]>>, n)
             ELSE group_loop(Tail(codes), Append(group, c), n)

\* codes = self.get_opcodes() or [("equal", 0, 1, 0, 1)]
codes_or_default(codes) ==
    IF codes = <<>> THEN <<[tag |-> "equal", i1 |-> 0, i2 |-> 1, j1 |-> 0, j2 |-> 1]>>
    ELSE codes

\* A leading equal run keeps its last n lines.
trim_first(codes, n) ==
    LET f == codes[1]
    IN  IF f.tag = "equal"
        THEN [codes EXCEPT ![1] = [f EXCEPT !.i1 = Max(f.i1, f.i2 - n),
                                            !.j1 = Max(f.j1, f.j2 - n)]]
        ELSE codes

\* A trailing equal run keeps its first n lines.
trim_last(codes, n) ==
    LET l == codes[Len(codes)]
    IN  IF l.tag = "equal"
        THEN [codes EXCEPT ![Len(codes)] = [l EXCEPT !.i2 = Min(l.i2, l.i1 + n),
                                                     !.j2 = Min(l.j2, l.j1 + n)]]
        ELSE codes

get_grouped_opcodes(a, b, n) ==
    group_loop(trim_last(trim_first(codes_or_default(get_opcodes(a, b)), n), n), <<>>, n)

\* difflib._format_range_unified
format_range_unified(start, stop) ==
    LET beginning == start + 1
        length == stop - start
    IN  IF length = 1 THEN Digits(beginning)
        ELSE Digits(IF length = 0 THEN beginning - 1 ELSE beginning)
             \o <<",">> \o Digits(length)

\* The lines of a[lo:hi], each prefixed by mark.
Marked(mark, s, lo, hi) == [d \in 1..(hi - lo) |-> <<mark>> \o s[lo + d]]

RECURSIVE hunk_lines(_, _, _)
hunk_lines(group, a, b) ==
    IF group = <<>> THEN <<>>
    ELSE LET c == Head(group)
         IN  (IF c.tag = "equal" THEN Marked(" ", a, c.i1, c.i2)
              ELSE (IF c.tag \in {"replace", "delete"} THEN Marked("-", a, c.i1, c.i2)
                    ELSE <<>>)
                   \o (IF c.tag \in {"replace", "insert"} THEN Marked("+", b, c.j1, c.j2)
                       ELSE <<>>))
             \o hunk_lines(Tail(group), a, b)

RECURSIVE hunks(_, _, _)
hunks(groups, a, b) ==
    IF groups = <<>> THEN <<>>
    ELSE LET g == Head(groups)
             first == g[1]
             last == g[Len(g)]
         IN  << <<"@","@"," ","-">> \o format_range_unified(first.i1, last.i2)
                \o <<" ","+">> \o format_range_unified(first.j1, last.j2)
                \o <<" ","@","@">> >>
             \o hunk_lines(g, a, b)
             \o hunks(Tail(groups), a, b)

\* difflib.unified_diff(a, b, lineterm='', n=n) with empty file names and dates.
diff_lines(groups, a, b) ==
    IF groups = <<>> THEN <<>>
    ELSE << <<"-","-","-"," ">>, <<"+","+","+"," ">> >> \o hunks(groups, a, b)

unified_diff(a, b, n) == diff_lines(get_grouped_opcodes(a, b, n), a, b)

\* RegulatoryTracker.generate_diff
generate_diff(old_content, new_content) ==
    Join(unified_diff(splitlines(old_content), splitlines(new_content), DiffContext),
         <<"\n">>)

(***************************************************************************)
(* The pure helpers of RegulatoryTracker.                                  *)
(***************************************************************************)
\* calculate_content_hash: the MD5 digest of the content, modelled as a value
\* of its own kind that is determined by the content and, like MD5 on the
\* texts met in practice, differs for different contents.
calculate_content_hash(content) == [md5 |-> content]

high_risk_keywords ==
    << <<"r","e","c","a","l","l">>,
       <<"w","a","r","n","i","n","g">>,
       <<"s","a","f","e","t","y">>,
       <<"d","e","a","t","h">>,
       <<"s","e","r","i","o","u","s">>,
       <<"u","r","g","e","n","t">>,
       <<"i","m","m","e","d","i","a","t","e">>,
       <<"b","l","a","c","k"," ","b","o","x">>,
       <<"c","o","n","t","r","a","i","n","d","i","c","a","t","i","o","n">>,
       <<"w","i","t","h","d","r","a","w","a","l">> >>

medium_risk_keywords ==
    << <<"l","a","b","e","l","i","n","g">>,
       <<"i","n","d","i","c","a","t","i","o","n">>,
       <<"d","o","s","a","g","e">>,
       <<"a","d","m","i","n","i","s","t","r","a","t","i","o","n">>,
       <<"c","l","i","n","i","c","a","l">>,
       <<"t","r","i","a","l">>,
       <<"s","t","u","d","y">>,
       <<"e","f","f","i","c","a","c","y">>,
       <<"a","p","p","r","o","v","a","l">>,
       <<"g","u","i","d","a","n","c","e">> >>

\* assess_risk_level(title, content): keywords are searched in the lower-cased
\* title, a space and the content.
assess_risk_level(title, content) ==
    LET text == Lower(title \o <<" ">> \o content)
    IN  IF AnyKeyword(text, high_risk_keywords) THEN "high"
        ELSE IF AnyKeyword(text, medium_risk_keywords) THEN "medium"
        ELSE "low"

areas ==
    << [area |-> "Clinical Trials",
        keywords |-> << <<"c","l","i","n","i","c","a","l">>,
                      <<"t","r","i","a","l">>,
                      <<"s","t","u","d","y">>,
                      <<"p","r","o","t","o","c","o","l">> >>],
       [area |-> "Labeling",
        keywords |-> << <<"l","a","b","e","l">>,
                      <<"l","a","b","e","l","i","n","g">>,
                      <<"p","a","c","k","a","g","e"," ","i","n","s","e","r","t">>,
                      <<"p","r","e","s","c","r","i","b","i","n","g">> >>],
       [area |-> "Manufacturing",
        keywords |-> << <<"m","a","n","u","f","a","c","t","u","r","i","n","g">>,
                      <<"q","u","a","l","i","t","y">>,
                      <<"f","a","c","i","l","i","t","y">>,
                      <<"i","n","s","p","e","c","t","i","o","n">> >>],
       [area |-> "Pharmacovigilance",
        keywords |-> << <<"s","a","f","e","t","y">>,
                      <<"a","d","v","e","r","s","e">>,
                      <<"r","e","a","c","t","i","o","n">>,
                      <<"m","o","n","i","t","o","r","i","n","g">> >>],
       [area |-> "Marketing",
        keywords |-> << <<"p","r","o","m","o","t","i","o","n">>,
                      <<"a","d","v","e","r","t","i","s","i","n","g">>,
                      <<"m","a","r","k","e","t","i","n","g">>,
                      <<"c","o","m","m","e","r","c","i","a","l">> >>],
       [area |-> "Regulatory Affairs",
        keywords |-> << <<"s","u","b","m","i","s","s","i","o","n">>,
                      <<"f","i","l","i","n","g">>,
                      <<"a","p","p","l","i","c","a","t","i","o","n">>,
                      <<"r","e","v","i","e","w">> >>] >>

\* identify_impact_areas(content): every area one of whose keywords occurs,
\* in the order of the table; ['General'] when there is none.
identify_impact_areas(content) ==
    LET content_lower == Lower(content)
        hit == SelectSeq(areas, LAMBDA a : AnyKeyword(content_lower, a.keywords))
        impacted_areas == [i \in DOMAIN hit |-> hit[i].area]
    IN  IF impacted_areas # <<>> THEN impacted_areas ELSE <<"General">>

\* Length at which generate_basic_summary truncates.
BasicSummaryLimit == 200
\* Number of '.'-separated sentences generate_basic_summary keeps.
BasicSummarySentences == 3

\* generate_basic_summary(content)
generate_basic_summary(content) ==
    LET parts == Split(content, ".")
        sentences == SubSeq(parts, 1, Min(Len(parts), BasicSummarySentences))
        stripped == [i \in DOMAIN sentences |-> Strip(sentences[i])]
        kept == SelectSeq(stripped, LAMBDA x : x # <<>>)
        summary == Join(kept, <<".", " ">>)
    IN  IF Len(summary) > BasicSummaryLimit
        THEN SubSeq(summary, 1, BasicSummaryLimit) \o <<".", ".", ".">>
        ELSE summary

\* json.dumps of the impact-area list (the detected_changes column is TEXT):
\* the JSON text, token by token: "[", the string literals separated by ",",
\* and "]".  An area name needs no escaping.
json_dumps(list) ==
    <<"[">> \o [i \in 1..(IF list = <<>> THEN 0 ELSE 2 * Len(list) - 1) |->
                  IF i % 2 = 1 THEN list[(i + 1) \div 2] ELSE ","]
           \o <<"]">>

\* json.loads of such a text: the string literals between the brackets, in
\* the order of the text.
json_loads(text) ==
    LET inner == SubSeq(text, 2, Len(text) - 1)
    IN  [i \in 1..((Len(inner) + 1) \div 2) |-> inner[2 * i - 1]]

(***************************************************************************)
(* Scraped items: the inputs of detect_changes.                            *)
(***************************************************************************)
TitleRecall ==
    <<"R","e","c","a","l","l"," ","N","o","t","i","c","e">>

TitleUpdate ==
    <<"U","p","d","a","t","e">>

ContentRecall ==
    <<"F","D","A"," ","r","e","c","a","l","l"," ","d","u","e"," ","t","o"," ","s","e","r","i",
      "o","u","s"," ","a","d","v","e","r","s","e"," ","r","e","a","c","t","i","o","n">>

ContentDose1 ==
    <<"I","n","i","t","i","a","l"," ","d","o","s","a","g","e"," ","1","0","m","g",".">>

ContentDose2 ==
    <<"I","n","i","t","i","a","l"," ","d","o","s","a","g","e"," ","1","0","m","g","."," ","U",
      "p","d","a","t","e","d"," ","d","o","s","a","g","e"," ","2","0","m","g"," ","d","u","e",
      " ","t","o"," ","n","e","w"," ","c","l","i","n","i","c","a","l"," ","t","r","i","a","l",
      " ","d","a","t","a",".">>

ContentPlain ==
    <<"O","f","f","i","c","e"," ","h","o","u","r","s",".","\n","C","l","o","s","e","d"," ","F",
      "r","i","d","a","y",".">>

\* ContentPlain followed by a line terminator.
ContentPlainNewline == ContentPlain \o <<"\n">>

ContentEmpty == <<>>

Url1 == "https://x/1"
Url2 == "https://x/2"
URLs == {Url1, Url2}

\* A scraped item is a dict; a malformed item lacks one of the four keys.
Item(source, title, url, content) ==
    [source |-> source, title |-> title, url |-> url, content |-> content]

WellFormedItems ==
    { Item("FDA_DRUGS", TitleRecall, Url1, ContentRecall),
      Item("FDA_NEWS", TitleUpdate, Url1, ContentDose1),
      Item("FDA_NEWS", TitleUpdate, Url1, ContentDose2),
      Item("FDA_DRUGS", TitleRecall, Url1, ContentDose2),
      Item("FDA_NEWS", TitleUpdate, Url2, ContentPlain),
      Item("FDA_NEWS", TitleUpdate, Url2, ContentPlainNewline),
      Item("FDA_NEWS", TitleUpdate, Url2, ContentEmpty) }

MalformedItems ==
    { [source |-> "FDA_NEWS", title |-> TitleUpdate, url |-> Url1],
      [source |-> "FDA_NEWS", url |-> Url2, content |-> ContentPlain] }

Items == WellFormedItems \cup MalformedItems

HasKey(item, key) == key \in DOMAIN item

WellFormed(item) == DOMAIN item = {"source", "title", "url", "content"}

\* The batches a scan may pass: lists of at most MaxBatch items.
Batches == UNION { [1..n -> Items] : n \in 0..MaxBatch }

(***************************************************************************)
(* The SQLite tables and the statements detect_changes runs on them.       *)
(* A table is the sequence of its rows in rowid order.                     *)
(***************************************************************************)
\* SELECT content_hash, content FROM regulatory_documents WHERE url = ?
\* followed by fetchone(): <<>> stands for None.
fetch_document(table, url) ==
    LET hit == SelectSeq(table, LAMBDA r : r.url = url)
    IN  IF hit = <<>> THEN <<>>
        ELSE <<[content_hash |-> hit[1].content_hash, content |-> hit[1].content]>>

\* The UNIQUE constraint on regulatory_documents.url.
UrlStored(table, url) == \E i \in DOMAIN table : table[i].url = url

\* A faulty INSERT whose values for title and content are swapped.
insert_document_swapped(table, item, content_hash, t) ==
    Append(table, [id |-> Len(table) + 1,
                   source |-> item.source,
                   title |-> item.content,
                   url |-> item.url,
                   content_hash |-> content_hash,
                   content |-> item.title,
                   last_updated |-> t,
                   created_at |-> t])

\* INSERT INTO regulatory_documents (source, title, url, content_hash,
\* content, last_updated, created_at): id is the next rowid.
insert_document(table, item, content_hash, t) ==
    Append(table, [id |-> Len(table) + 1,
                   source |-> item.source,
                   title |-> item.title,
                   url |-> item.url,
                   content_hash |-> content_hash,
                   content |-> item.content,
                   last_updated |-> t,
                   created_at |-> t])

\* A faulty UPDATE that sets content_hash and last_updated but not content.
update_document_hash_only(table, url, content_hash, content, t) ==
    [i \in DOMAIN table |->
        IF table[i].url = url
        THEN [table[i] EXCEPT !.content_hash = content_hash, !.last_updated = t]
        ELSE table[i]]

\* A faulty UPDATE that also resets created_at.
update_document_resets_created(table, url, content_hash, content, t) ==
    [i \in DOMAIN table |->
        IF table[i].url = url
        THEN [table[i] EXCEPT !.content_hash = content_hash,
                              !.content = content,
                              !.last_updated = t,
                              !.created_at = t]
        ELSE table[i]]

\* A faulty UPDATE without its WHERE clause: every row is overwritten.
update_document_every_row(table, url, content_hash, content, t) ==
    [i \in DOMAIN table |->
        [table[i] EXCEPT !.content_hash = content_hash,
                         !.content = content,
                         !.last_updated = t]]

\* UPDATE regulatory_documents SET content_hash = ?, content = ?,
\* last_updated = ? WHERE url = ?
update_document(table, url, content_hash, content, t) ==
    [i \in DOMAIN table |->
        IF table[i].url = url
        THEN [table[i] EXCEPT !.content_hash = content_hash,
                              !.content = content,
                              !.last_updated = t]
        ELSE table[i]]

\* The RegulatoryChange built for a document seen for the first time.
new_change(item, t) ==
    [source |-> item.source,
     title |-> item.title,
     url |-> item.url,
     content |-> item.content,
     change_type |-> "new",
     risk_level |-> assess_risk_level(item.title, item.content),
     detected_at |-> t,
     summary |-> generate_basic_summary(item.content),
     impact_areas |-> identify_impact_areas(item.content)]

\* A faulty change record that carries the full new content, not the diff.
updated_change_full_content(item, diff, t) ==
    [source |-> item.source,
     title |-> item.title,
     url |-> item.url,
     content |-> item.content,
     change_type |-> "updated",
     risk_level |-> assess_risk_level(item.title, diff),
     detected_at |-> t,
     summary |-> generate_basic_summary(diff),
     impact_areas |-> identify_impact_areas(diff)]

\* A faulty change record that classifies the full new content, not the diff.
updated_change_classifies_content(item, diff, t) ==
    [source |-> item.source,
     title |-> item.title,
     url |-> item.url,
     content |-> diff,
     change_type |-> "updated",
     risk_level |-> assess_risk_level(item.title, item.content),
     detected_at |-> t,
     summary |-> generate_basic_summary(diff),
     impact_areas |-> identify_impact_areas(item.content)]

\* The RegulatoryChange built for a document whose content hash changed.
updated_change(item, diff, t) ==
    [source |-> item.source,
     title |-> item.title,
     url |-> item.url,
     content |-> diff,
     change_type |-> "updated",
     risk_level |-> assess_risk_level(item.title, diff),
     detected_at |-> t,
     summary |-> generate_basic_summary(diff),
     impact_areas |-> identify_impact_areas(diff)]

\* INSERT INTO detected_changes (...) for one change.
insert_change(table, change) ==
    Append(table, [id |-> Len(table) + 1,
                   source |-> change.source,
                   title |-> change.title,
                   url |-> change.url,
                   change_type |-> change.change_type,
                   risk_level |-> change.risk_level,
                   summary |-> change.summary,
                   impact_areas |-> json_dumps(change.impact_areas),
                   detected_at |-> change.detected_at])

\* A faulty loop that leaves after the first change.
store_changes_first_only(table, detected_changes) ==
    IF detected_changes = <<>> THEN table
    ELSE insert_change(table, Head(detected_changes))

\* A faulty loop that logs the changes from the last to the first.
RECURSIVE store_changes_reversed(_, _)
store_changes_reversed(table, detected_changes) ==
    IF detected_changes = <<>> THEN table
    ELSE store_changes_reversed(
             insert_change(table, detected_changes[Len(detected_changes)]),
             SubSeq(detected_changes, 1, Len(detected_changes) - 1))

\* for change in detected_changes: INSERT INTO detected_changes
RECURSIVE store_changes(_, _)
store_changes(table, detected_changes) ==
    IF detected_changes = <<>> THEN table
    ELSE store_changes(insert_change(table, Head(detected_changes)), Tail(detected_changes))

\* A faulty test that takes every stored document for changed.
Branch_always_updated(fetched, content_hash) ==
    IF fetched = <<>> THEN "new" ELSE "updated"

\* A faulty test that never takes the update branch.
Branch_never_updated(fetched, content_hash) ==
    IF fetched = <<>> THEN "new" ELSE "unchanged"

\* Which branch of detect_changes an item takes, from the fetched row and
\* the item's content hash.
Branch(fetched, content_hash) ==
    IF fetched = <<>> THEN "new"
    ELSE IF fetched[1].content_hash # content_hash THEN "updated"
    ELSE "unchanged"

(***************************************************************************)
(* State.                                                                  *)
(***************************************************************************)
\* Connections (one per detect_changes call in flight).
Conns == {1, 2}
\* The callers of the sequential specification.
SeqConns == {1}

VARIABLES
    docs,       \* committed rows of regulatory_documents
    changes,    \* committed rows of detected_changes
    lock,       \* the connection holding SQLite's write lock, 0 when free
    now,        \* the clock read by datetime.now()
    pc,         \* per connection: where its detect_changes call stands
    batch,      \* per connection: scraped_data
    idx,        \* per connection: index of the item of the for loop
    fetched,    \* per connection: result of cursor.fetchone()
    detected,   \* per connection: detected_changes (the return value)
    tx,         \* per connection: its open transaction's uncommitted tables
    nwrites,    \* history: committed inserts + updates per URL
    latest,     \* history: content of the last item per URL of committed calls
    seen,       \* history, per connection: content of the last item per URL of this call
    prev,       \* history: the batch of the call that returned last
    call,       \* history, per connection: the tables when the call began
    TRANSFORMERS_AVAILABLE, \* ai_enhancer: the transformers import succeeded
    summarizer,             \* AIEnhancer: the summarization pipeline is loaded (not None)
    classifier,             \* AIEnhancer: the text-classification pipeline is loaded
    sentiment_analyzer,     \* AIEnhancer: the sentiment pipeline is loaded (not None)
    out         \* the last call on the AIEnhancer's or the tracker's helpers, with its result

vars == <<docs, changes, lock, now, pc, batch, idx, fetched, detected, tx,
          nwrites, latest, seen, prev, call,
          TRANSFORMERS_AVAILABLE, summarizer, classifier, sentiment_analyzer, out>>

\* The state of the AIEnhancer and of the calls made on the helpers.
aivars == <<TRANSFORMERS_AVAILABLE, summarizer, classifier, sentiment_analyzer, out>>

\* The state of the AIEnhancer alone.
enhancervars == <<TRANSFORMERS_AVAILABLE, summarizer, classifier, sentiment_analyzer>>

\* The state of the tracker's database and callers.
trackervars == <<docs, changes, lock, now, pc, batch, idx, fetched, detected, tx,
                 nwrites, latest, seen, prev, call>>

\* No helper has been called yet.
NoCall == [op |-> "none"]

NoTx == [active |-> FALSE, docs |-> <<>>, changes |-> <<>>,
         nwrites |-> [u \in URLs |-> 0]]

NothingSeen == [u \in URLs |-> <<>>]

\* A faulty connection that does not read its own uncommitted writes.
View_committed_only(c) ==
    [active |-> FALSE, docs |-> docs, changes |-> changes, nwrites |-> nwrites]

\* What connection c reads: its own uncommitted tables inside a transaction,
\* the committed ones otherwise.
View(c) ==
    IF tx[c].active THEN tx[c]
    ELSE [active |-> FALSE, docs |-> docs, changes |-> changes, nwrites |-> nwrites]

\* What every other connection reads: committed data only.
Committed == [docs |-> docs, changes |-> changes]

CurrentItem(c) == batch[c][idx[c]]

\* RegulatoryTracker(): both tables exist and are empty, no call in flight.
init_database ==
    /\ docs = <<>>
    /\ changes = <<>>
    /\ lock = 0
    /\ now = 0
    /\ pc = [c \in Conns |-> "idle"]
    /\ batch = [c \in Conns |-> <<>>]
    /\ idx = [c \in Conns |-> 1]
    /\ fetched = [c \in Conns |-> <<>>]
    /\ detected = [c \in Conns |-> <<>>]
    /\ tx = [c \in Conns |-> NoTx]
    /\ nwrites = [u \in URLs |-> 0]
    /\ latest = NothingSeen
    /\ seen = [c \in Conns |-> NothingSeen]
    /\ prev = [valid |-> FALSE, batch |-> <<>>]
    /\ call = [c \in Conns |-> [docs |-> <<>>, changes |-> <<>>, repeat |-> FALSE]]

\* reg_scraper run on its own: the tracker is constructed, ai_enhancer is
\* not loaded.
Init ==
    /\ init_database
    /\ TRANSFORMERS_AVAILABLE = FALSE
    /\ summarizer = FALSE
    /\ classifier = FALSE
    /\ sentiment_analyzer = FALSE
    /\ out = NoCall

InFlight(c) == pc[c] \notin {"idle", "returned", "failed"}

(***************************************************************************)
(* detect_changes, step by step.                                           *)
(***************************************************************************)
\* The call starts: connect, cursor, detected_changes = [].
Begin(c) ==
    /\ ~InFlight(c)
    /\ \E b \in Batches :
        /\ now + 1 + Len(b) <= MaxClock
        /\ batch' = [batch EXCEPT ![c] = b]
        /\ pc' = [pc EXCEPT ![c] = IF b = <<>> THEN "store" ELSE "select"]
        /\ call' = [call EXCEPT ![c] = [docs |-> docs, changes |-> changes,
                                        repeat |-> prev.valid /\ prev.batch = b]]
    /\ now' = now + 1
    /\ idx' = [idx EXCEPT ![c] = 1]
    /\ fetched' = [fetched EXCEPT ![c] = <<>>]
    /\ detected' = [detected EXCEPT ![c] = <<>>]
    /\ seen' = [seen EXCEPT ![c] = NothingSeen]
    /\ UNCHANGED <<aivars, docs, changes, lock, tx, nwrites, latest, prev>>

\* content_hash = calculate_content_hash(item['content']); SELECT ...
\* WHERE url = item['url']; result = cursor.fetchone()
Select(c) ==
    /\ pc[c] = "select"
    /\ HasKey(CurrentItem(c), "content")
    /\ HasKey(CurrentItem(c), "url")
    /\ fetched' = [fetched EXCEPT ![c] = fetch_document(View(c).docs, CurrentItem(c).url)]
    /\ pc' = [pc EXCEPT ![c] = "apply"]
    /\ now' = now + 1
    /\ UNCHANGED <<aivars, docs, changes, lock, batch, idx, detected, tx,
                   nwrites, latest, seen, prev, call>>

\* item['content'] or item['url'] raises KeyError.
SelectKeyError(c) ==
    /\ pc[c] = "select"
    /\ ~(HasKey(CurrentItem(c), "content") /\ HasKey(CurrentItem(c), "url"))
    /\ pc' = [pc EXCEPT ![c] = "raised"]
    /\ now' = now + 1
    /\ UNCHANGED <<aivars, docs, changes, lock, batch, idx, fetched, detected, tx,
                   nwrites, latest, seen, prev, call>>

\* The loop moves to the next item, or leaves the loop.
Advance(c) ==
    /\ idx' = [idx EXCEPT ![c] = @ + 1]
    /\ pc' = [pc EXCEPT ![c] = IF idx[c] = Len(batch[c]) THEN "store" ELSE "select"]

\* The history of the item just processed.
Note(c, item) == seen' = [seen EXCEPT ![c][item.url] = <<item.content>>]

\* The first INSERT or UPDATE of a call opens a transaction and takes the
\* write lock; later statements run in that transaction.
CanWrite(c) == lock \in {0, c}

\* result is None: build the 'new' change, INSERT the document.
ApplyNew(c) ==
    LET item == CurrentItem(c)
        content_hash == calculate_content_hash(item.content)
    IN  /\ pc[c] = "apply"
        /\ Branch(fetched[c], content_hash) = "new"
        /\ HasKey(item, "source") /\ HasKey(item, "title")
        /\ CanWrite(c)
        /\ ~UrlStored(View(c).docs, item.url)
        /\ detected' = [detected EXCEPT ![c] = Append(@, new_change(item, now))]
        /\ tx' = [tx EXCEPT ![c] =
                    [active |-> TRUE,
                     docs |-> insert_document(View(c).docs, item, content_hash, now),
                     changes |-> View(c).changes,
                     nwrites |-> [View(c).nwrites EXCEPT ![item.url] = @ + 1]]]
        /\ lock' = c
        /\ Note(c, item)
        /\ Advance(c)
        /\ UNCHANGED <<aivars, docs, changes, now, batch, fetched, nwrites, latest, prev, call>>

\* result[0] != content_hash: build the 'updated' change from the diff
\* against the fetched content, UPDATE the document.
ApplyUpdated(c) ==
    LET item == CurrentItem(c)
        content_hash == calculate_content_hash(item.content)
        old_content == fetched[c][1].content
    IN  /\ pc[c] = "apply"
        /\ Branch(fetched[c], content_hash) = "updated"
        /\ HasKey(item, "source") /\ HasKey(item, "title")
        /\ CanWrite(c)
        /\ detected' = [detected EXCEPT ![c] =
                            Append(@, updated_change(item, generate_diff(old_content, item.content), now))]
        /\ tx' = [tx EXCEPT ![c] =
                    [active |-> TRUE,
                     docs |-> update_document(View(c).docs, item.url, content_hash,
                                              item.content, now),
                     changes |-> View(c).changes,
                     nwrites |-> [View(c).nwrites EXCEPT ![item.url] = @ + 1]]]
        /\ lock' = c
        /\ Note(c, item)
        /\ Advance(c)
        /\ UNCHANGED <<aivars, docs, changes, now, batch, fetched, nwrites, latest, prev, call>>

\* The stored hash equals the item's: neither branch is taken.
ApplyUnchanged(c) ==
    LET item == CurrentItem(c)
    IN  /\ pc[c] = "apply"
        /\ Branch(fetched[c], calculate_content_hash(item.content)) = "unchanged"
        /\ Note(c, item)
        /\ Advance(c)
        /\ UNCHANGED <<aivars, docs, changes, lock, now, batch, fetched, detected, tx,
                       nwrites, latest, prev, call>>

\* Building the RegulatoryChange reads item['source'] and item['title']:
\* KeyError, before the change is appended and before any statement runs.
ApplyKeyError(c) ==
    LET item == CurrentItem(c)
    IN  /\ pc[c] = "apply"
        /\ Branch(fetched[c], calculate_content_hash(item.content)) # "unchanged"
        /\ ~(HasKey(item, "source") /\ HasKey(item, "title"))
        /\ pc' = [pc EXCEPT ![c] = "raised"]
        /\ UNCHANGED <<aivars, docs, changes, lock, now, batch, idx, fetched, detected, tx,
                       nwrites, latest, seen, prev, call>>

\* for change in detected_changes: INSERT INTO detected_changes.  A call
\* with a change has written a document before, so it holds the lock.
StoreChanges(c) ==
    /\ pc[c] = "store"
    /\ tx' = [tx EXCEPT ![c] =
                IF detected[c] = <<>> THEN @
                ELSE [@ EXCEPT !.changes = store_changes(@, detected[c])]]
    /\ pc' = [pc EXCEPT ![c] = "commit"]
    /\ UNCHANGED <<aivars, docs, changes, lock, now, batch, idx, fetched, detected,
                   nwrites, latest, seen, prev, call>>

\* A faulty commit placed before the change-log loop: the documents become
\* visible, the log rows of the call do not.
Commit_documents_only(c) ==
    /\ pc[c] = "commit"
    /\ docs' = View(c).docs
    /\ changes' = changes
    /\ nwrites' = View(c).nwrites
    /\ lock' = IF lock = c THEN 0 ELSE lock
    /\ tx' = [tx EXCEPT ![c] = NoTx]
    /\ latest' = [u \in URLs |-> IF seen[c][u] # <<>> THEN seen[c][u] ELSE latest[u]]
    /\ prev' = [valid |-> TRUE, batch |-> batch[c]]
    /\ pc' = [pc EXCEPT ![c] = "returned"]
    /\ UNCHANGED <<aivars, now, batch, idx, fetched, detected, seen, call>>

\* conn.commit(); conn.close(); return detected_changes
Commit(c) ==
    /\ pc[c] = "commit"
    /\ docs' = View(c).docs
    /\ changes' = View(c).changes
    /\ nwrites' = View(c).nwrites
    /\ lock' = IF lock = c THEN 0 ELSE lock
    /\ tx' = [tx EXCEPT ![c] = NoTx]
    /\ latest' = [u \in URLs |-> IF seen[c][u] # <<>> THEN seen[c][u] ELSE latest[u]]
    /\ prev' = [valid |-> TRUE, batch |-> batch[c]]
    /\ pc' = [pc EXCEPT ![c] = "returned"]
    /\ UNCHANGED <<aivars, now, batch, idx, fetched, detected, seen, call>>

\* A faulty exit that commits what the call has written before the
\* exception leaves it.
Unwind_commits(c) ==
    /\ pc[c] = "raised"
    /\ docs' = View(c).docs
    /\ changes' = View(c).changes
    /\ nwrites' = View(c).nwrites
    /\ tx' = [tx EXCEPT ![c] = NoTx]
    /\ lock' = IF lock = c THEN 0 ELSE lock
    /\ detected' = [detected EXCEPT ![c] = <<>>]
    /\ prev' = [valid |-> FALSE, batch |-> <<>>]
    /\ pc' = [pc EXCEPT ![c] = "failed"]
    /\ UNCHANGED <<aivars, now, batch, idx, fetched, latest, seen, call>>

\* An exception leaves detect_changes: nothing is returned, and the
\* connection is dropped without commit, which rolls its transaction back.
Unwind(c) ==
    /\ pc[c] = "raised"
    /\ tx' = [tx EXCEPT ![c] = NoTx]
    /\ lock' = IF lock = c THEN 0 ELSE lock
    /\ detected' = [detected EXCEPT ![c] = <<>>]
    /\ prev' = [valid |-> FALSE, batch |-> <<>>]
    /\ pc' = [pc EXCEPT ![c] = "failed"]
    /\ UNCHANGED <<aivars, docs, changes, now, batch, idx, fetched, nwrites, latest, seen, call>>

\* One caller: calls never overlap.
Next ==
    \E c \in SeqConns :
        \/ Begin(c)
        \/ Select(c)
        \/ SelectKeyError(c)
        \/ ApplyNew(c)
        \/ ApplyUpdated(c)
        \/ ApplyUnchanged(c)
        \/ ApplyKeyError(c)
        \/ StoreChanges(c)
        \/ Commit(c)
        \/ Unwind(c)

Spec == Init /\ [][Next]_vars

(***************************************************************************)
(* Concurrent calls: two scans, each on its own connection, against the    *)
(* same database file.  detect_changes takes no lock of its own; SQLite's  *)
(* write lock is taken by a connection's first INSERT or UPDATE and held   *)
(* until its commit, and the SELECT of an item runs before it.             *)
(***************************************************************************)
\* cursor.execute(INSERT/UPDATE) while the other connection holds the write
\* lock: the statement may wait (ApplyNew and ApplyUpdated stay disabled
\* until the lock is free) or, after the busy timeout, raise
\* sqlite3.OperationalError.
ApplyLocked(c) ==
    LET item == CurrentItem(c)
        content_hash == calculate_content_hash(item.content)
    IN  /\ pc[c] = "apply"
        /\ Branch(fetched[c], content_hash) # "unchanged"
        /\ HasKey(item, "source") /\ HasKey(item, "title")
        /\ ~CanWrite(c)
        /\ pc' = [pc EXCEPT ![c] = "raised"]
        /\ UNCHANGED <<aivars, docs, changes, lock, now, batch, idx, fetched, detected, tx,
                       nwrites, latest, seen, prev, call>>

\* result was None, but by the time of the INSERT the URL is stored (another
\* call inserted it and committed): UNIQUE(url) fails, sqlite3.IntegrityError.
ApplyIntegrityError(c) ==
    LET item == CurrentItem(c)
        content_hash == calculate_content_hash(item.content)
    IN  /\ pc[c] = "apply"
        /\ Branch(fetched[c], content_hash) = "new"
        /\ HasKey(item, "source") /\ HasKey(item, "title")
        /\ CanWrite(c)
        /\ UrlStored(View(c).docs, item.url)
        /\ tx' = [tx EXCEPT ![c] =
                    [active |-> TRUE,
                     docs |-> View(c).docs,
                     changes |-> View(c).changes,
                     nwrites |-> View(c).nwrites]]
        /\ lock' = c
        /\ pc' = [pc EXCEPT ![c] = "raised"]
        /\ UNCHANGED <<aivars, docs, changes, now, batch, idx, fetched, detected,
                       nwrites, latest, seen, prev, call>>

\* The scans that run side by side each carry at most MaxConcBatch items.
MaxConcBatch == 1

ConcBatches == { b \in Batches : Len(b) <= MaxConcBatch }

\* Two callers: the steps of their calls interleave.
NextConc ==
    \E c \in Conns :
        \/ Begin(c) /\ batch'[c] \in ConcBatches
        \/ Select(c)
        \/ SelectKeyError(c)
        \/ ApplyNew(c)
        \/ ApplyUpdated(c)
        \/ ApplyUnchanged(c)
        \/ ApplyKeyError(c)
        \/ ApplyLocked(c)
        \/ ApplyIntegrityError(c)
        \/ StoreChanges(c)
        \/ Commit(c)
        \/ Unwind(c)

SpecConc == Init /\ [][NextConc]_vars

(***************************************************************************)
(* ai_enhancer: the AIEnhancer's classifiers and action items.             *)
(* Scores and confidences are integer percentages: 0.3 is 30.              *)
(***************************************************************************)
\* A Python float, as a percentage, and Python's None.
Float(percent) == [percent |-> percent]
PyNone == [none |-> TRUE]

\* sum(1 for keyword in keywords if keyword in text)
CountKeywords(text, keywords) ==
    Cardinality({ i \in DOMAIN keywords : Contains(text, keywords[i]) })

\* dict.get(key, default)
Get(d, key, default) == IF key \in DOMAIN d THEN d[key] ELSE default

\* impact_categories of analyze_impact_areas, in the table's own spelling.
impact_categories ==
    << [category |-> "Clinical Trials",
        keywords |-> << <<"c","l","i","n","i","c","a","l"," ","t","r","i","a","l">>,
                      <<"s","t","u","d","y"," ","p","r","o","t","o","c","o","l">>,
                      <<"p","a","t","i","e","n","t"," ","e","n","r","o","l","l","m","e","n","t">>,
                      <<"b","i","o","m","a","r","k","e","r">>,
                      <<"e","n","d","p","o","i","n","t">>,
                      <<"s","t","a","t","i","s","t","i","c","a","l"," ","a","n","a","l","y","s","i","s">> >>],
       [category |-> "Manufacturing",
        keywords |-> << <<"q","u","a","l","i","t","y"," ","c","o","n","t","r","o","l">>,
                      <<"m","a","n","u","f","a","c","t","u","r","i","n","g">>,
                      <<"f","a","c","i","l","i","t","y"," ","i","n","s","p","e","c","t","i","o","n">>,
                      <<"G","M","P">>,
                      <<"b","a","t","c","h"," ","r","e","c","o","r","d","s">>,
                      <<"s","t","e","r","i","l","e"," ","p","r","o","d","u","c","t","i","o","n">> >>],
       [category |-> "Labeling",
        keywords |-> << <<"l","a","b","e","l","i","n","g">>,
                      <<"p","a","c","k","a","g","e"," ","i","n","s","e","r","t">>,
                      <<"p","r","e","s","c","r","i","b","i","n","g"," ","i","n","f","o","r","m","a","t","i","o","n">>,
                      <<"c","o","n","t","r","a","i","n","d","i","c","a","t","i","o","n">>,
                      <<"w","a","r","n","i","n","g">>,
                      <<"d","o","s","a","g","e">> >>],
       [category |-> "Pharmacovigilance",
        keywords |-> << <<"a","d","v","e","r","s","e"," ","e","v","e","n","t">>,
                      <<"s","a","f","e","t","y"," ","m","o","n","i","t","o","r","i","n","g">>,
                      <<"R","E","M","S">>,
                      <<"p","o","s","t","-","m","a","r","k","e","t","i","n","g">>,
                      <<"s","u","r","v","e","i","l","l","a","n","c","e">>,
                      <<"r","i","s","k"," ","e","v","a","l","u","a","t","i","o","n">> >>],
       [category |-> "Marketing",
        keywords |-> << <<"p","r","o","m","o","t","i","o","n","a","l">>,
                      <<"a","d","v","e","r","t","i","s","i","n","g">>,
                      <<"m","a","r","k","e","t","i","n","g"," ","m","a","t","e","r","i","a","l","s">>,
                      <<"c","o","m","m","e","r","c","i","a","l">>,
                      <<"l","a","u","n","c","h">>,
                      <<"s","a","l","e","s">> >>],
       [category |-> "Regulatory Affairs",
        keywords |-> << <<"s","u","b","m","i","s","s","i","o","n">>,
                      <<"f","i","l","i","n","g">>,
                      <<"r","e","g","u","l","a","t","o","r","y"," ","p","a","t","h","w","a","y">>,
                      <<"a","p","p","r","o","v","a","l">>,
                      <<"g","u","i","d","a","n","c","e">>,
                      <<"c","o","m","p","l","i","a","n","c","e">> >>] >>

\* if score >= 2
RelevanceThreshold == 2

\* The categories of a table that qualify, in table order.
RECURSIVE detected_areas(_, _, _)
detected_areas(table, content_lower, i) ==
    IF i > Len(table) THEN <<>>
    ELSE (IF CountKeywords(content_lower, table[i].keywords) >= RelevanceThreshold
          THEN <<table[i].category>> ELSE <<>>)
         \o detected_areas(table, content_lower, i + 1)

\* areas of _rule_based_impact_analysis.
rule_areas ==
    << [area |-> "Clinical Trials",
        keywords |-> << <<"c","l","i","n","i","c","a","l">>,
                      <<"t","r","i","a","l">>,
                      <<"s","t","u","d","y">>,
                      <<"p","r","o","t","o","c","o","l">> >>],
       [area |-> "Labeling",
        keywords |-> << <<"l","a","b","e","l">>,
                      <<"l","a","b","e","l","i","n","g">>,
                      <<"p","a","c","k","a","g","e"," ","i","n","s","e","r","t">>,
                      <<"p","r","e","s","c","r","i","b","i","n","g">> >>],
       [area |-> "Manufacturing",
        keywords |-> << <<"m","a","n","u","f","a","c","t","u","r","i","n","g">>,
                      <<"q","u","a","l","i","t","y">>,
                      <<"f","a","c","i","l","i","t","y">>,
                      <<"i","n","s","p","e","c","t","i","o","n">> >>],
       [area |-> "Pharmacovigilance",
        keywords |-> << <<"s","a","f","e","t","y">>,
                      <<"a","d","v","e","r","s","e">>,
                      <<"r","e","a","c","t","i","o","n">>,
                      <<"m","o","n","i","t","o","r","i","n","g">> >>],
       [area |-> "Marketing",
        keywords |-> << <<"p","r","o","m","o","t","i","o","n">>,
                      <<"a","d","v","e","r","t","i","s","i","n","g">>,
                      <<"m","a","r","k","e","t","i","n","g">>,
                      <<"c","o","m","m","e","r","c","i","a","l">> >>],
       [area |-> "Regulatory Affairs",
        keywords |-> << <<"s","u","b","m","i","s","s","i","o","n">>,
                      <<"f","i","l","i","n","g">>,
                      <<"a","p","p","l","i","c","a","t","i","o","n">>,
                      <<"r","e","v","i","e","w">> >>] >>

\* for area, keywords in areas.items(): if any(keyword in content_lower ...)
RECURSIVE impacted_areas(_, _, _)
impacted_areas(table, content_lower, i) ==
    IF i > Len(table) THEN <<>>
    ELSE (IF AnyKeyword(content_lower, table[i].keywords)
          THEN <<table[i].area>> ELSE <<>>)
         \o impacted_areas(table, content_lower, i + 1)

\* A faulty fallback that returns the list as found, also when it is empty.
rule_based_impact_analysis_no_sentinel(content) ==
    impacted_areas(rule_areas, Lower(content), 1)

\* _rule_based_impact_analysis(content)
rule_based_impact_analysis(content) ==
    IF impacted_areas(rule_areas, Lower(content), 1) # <<>>
    THEN impacted_areas(rule_areas, Lower(content), 1)
    ELSE <<"General">>

\* analyze_impact_areas(content): without the transformers library the
\* rule-based analysis; with it, the keyword count over impact_categories
\* (no statement of the try block raises on a string).
analyze_impact_areas(content) ==
    IF ~TRANSFORMERS_AVAILABLE THEN rule_based_impact_analysis(content)
    ELSE IF detected_areas(impact_categories, Lower(content), 1) # <<>>
         THEN detected_areas(impact_categories, Lower(content), 1)
         ELSE <<"General Regulatory">>

\* The keyword lists of _rule_based_risk_assessment.
rule_high_risk_keywords ==
    << <<"r","e","c","a","l","l">>,
       <<"w","a","r","n","i","n","g">>,
       <<"s","a","f","e","t","y">>,
       <<"d","e","a","t","h">>,
       <<"s","e","r","i","o","u","s">>,
       <<"u","r","g","e","n","t">>,
       <<"i","m","m","e","d","i","a","t","e">>,
       <<"b","l","a","c","k"," ","b","o","x">>,
       <<"c","o","n","t","r","a","i","n","d","i","c","a","t","i","o","n">>,
       <<"w","i","t","h","d","r","a","w","a","l">> >>

rule_medium_risk_keywords ==
    << <<"l","a","b","e","l","i","n","g">>,
       <<"i","n","d","i","c","a","t","i","o","n">>,
       <<"d","o","s","a","g","e">>,
       <<"a","d","m","i","n","i","s","t","r","a","t","i","o","n">>,
       <<"c","l","i","n","i","c","a","l">>,
       <<"t","r","i","a","l">>,
       <<"s","t","u","d","y">>,
       <<"e","f","f","i","c","a","c","y">>,
       <<"a","p","p","r","o","v","a","l">>,
       <<"g","u","i","d","a","n","c","e">> >>

ReasonHigh ==
    <<"H","i","g","h","-","r","i","s","k"," ","k","e","y","w","o","r","d","s"," ","d","e","t",
      "e","c","t","e","d">>

ReasonMedium ==
    <<"M","e","d","i","u","m","-","r","i","s","k"," ","k","e","y","w","o","r","d","s"," ","d",
      "e","t","e","c","t","e","d">>

ReasonLow ==
    <<"N","o"," ","h","i","g","h","-","r","i","s","k"," ","i","n","d","i","c","a","t","o","r",
      "s"," ","f","o","u","n","d">>

\* A faulty rule that looks for medium-risk keywords first.
rule_based_risk_assessment_medium_first(text) ==
    IF AnyKeyword(Lower(text), rule_medium_risk_keywords)
    THEN [risk_level |-> "medium", confidence |-> Float(70), reasoning |-> ReasonMedium]
    ELSE IF AnyKeyword(Lower(text), rule_high_risk_keywords)
    THEN [risk_level |-> "high", confidence |-> Float(80), reasoning |-> ReasonHigh]
    ELSE [risk_level |-> "low", confidence |-> Float(60), reasoning |-> ReasonLow]

\* _rule_based_risk_assessment(text)
rule_based_risk_assessment(text) ==
    IF AnyKeyword(Lower(text), rule_high_risk_keywords)
    THEN [risk_level |-> "high", confidence |-> Float(80), reasoning |-> ReasonHigh]
    ELSE IF AnyKeyword(Lower(text), rule_medium_risk_keywords)
    THEN [risk_level |-> "medium", confidence |-> Float(70), reasoning |-> ReasonMedium]
    ELSE [risk_level |-> "low", confidence |-> Float(60), reasoning |-> ReasonLow]

\* The keyword lists of assess_urgency_level.
urgent_keywords ==
    << <<"i","m","m","e","d","i","a","t","e">>,
       <<"u","r","g","e","n","t">>,
       <<"c","r","i","t","i","c","a","l">>,
       <<"e","m","e","r","g","e","n","c","y">>,
       <<"r","e","c","a","l","l">>,
       <<"w","a","r","n","i","n","g">>,
       <<"d","e","a","t","h">>,
       <<"s","e","r","i","o","u","s"," ","a","d","v","e","r","s","e">> >>

high_priority_keywords ==
    << <<"s","a","f","e","t","y">>,
       <<"b","l","a","c","k"," ","b","o","x">>,
       <<"c","o","n","t","r","a","i","n","d","i","c","a","t","i","o","n">>,
       <<"w","i","t","h","d","r","a","w","a","l">>,
       <<"s","u","s","p","e","n","s","i","o","n">>,
       <<"i","n","v","e","s","t","i","g","a","t","i","o","n">> >>

\* sentiment_score < 0.3 and sentiment_score < 0.6
HighBelow == 30
MediumBelow == 60

\* What a call of the sentiment pipeline can do.  It is a capability outside
\* this code: it returns [{'label': ..., 'score': s}], it raises, or it
\* returns something else: an empty list, a dict without 'score', or a
\* 'score' that is no number (None).
Scores == {0, 29, 30, 45, 59, 60, 100}

SentimentReplies ==
    { [kind |-> "score", score |-> Float(s)] : s \in Scores }
        \cup { [kind |-> "raises"], [kind |-> "empty"], [kind |-> "no_score"],
               [kind |-> "score", score |-> PyNone] }

\* The reply is a list whose first element has a numeric 'score'.
WellFormedReply(reply) == reply.kind = "score" /\ reply.score # PyNone

\* f"Detected {urgent_score} urgent + {priority_score} high-priority indicators"
reasoning_text(urgent_score, priority_score) ==
    <<"D","e","t","e","c","t","e","d"," ">> \o Digits(urgent_score)
        \o <<" ","u","r","g","e","n","t"," ","+"," ">> \o Digits(priority_score)
        \o <<" ","h","i","g","h","-","p","r","i","o","r","i","t","y"," ","i","n","d","i","c","a","t","o","r","s">>

\* The if/elif/else on the two keyword counts and the score; the score is
\* compared only where Python's `or` reaches the comparison.
learned_risk_level(urgent_score, priority_score, score) ==
    IF urgent_score > 0 \/ score.percent < HighBelow THEN "high"
    ELSE IF priority_score > 0 \/ score.percent < MediumBelow THEN "medium"
    ELSE "low"

\* The body of the try block once result[0]['score'] has been read: a score
\* that is no number raises TypeError in the first comparison, unless an
\* urgent keyword makes `or` skip it; the except clause then falls through
\* to the rule-based assessment.
urgency_from_score(text, urgent_score, priority_score, score) ==
    IF score = PyNone /\ urgent_score = 0 THEN rule_based_risk_assessment(text)
    ELSE [risk_level |-> IF score = PyNone THEN "high"
                         ELSE learned_risk_level(urgent_score, priority_score, score),
          confidence |-> score,
          reasoning |-> reasoning_text(urgent_score, priority_score)]

\* A faulty assessment that ignores the high-priority keywords.
assess_urgency_level_score_only(title, content, reply) ==
    IF ~sentiment_analyzer \/ reply.kind # "score"
    THEN rule_based_risk_assessment(title \o <<" ">> \o content)
    ELSE urgency_from_score(title \o <<" ">> \o content,
                            CountKeywords(Lower(title \o <<" ">> \o content), urgent_keywords),
                            0,
                            reply.score)

\* assess_urgency_level(title, content), given what the sentiment pipeline
\* does when called on text[:512].
assess_urgency_level(title, content, reply) ==
    IF ~sentiment_analyzer \/ reply.kind # "score"
    THEN rule_based_risk_assessment(title \o <<" ">> \o content)
    ELSE urgency_from_score(title \o <<" ">> \o content,
                            CountKeywords(Lower(title \o <<" ">> \o content), urgent_keywords),
                            CountKeywords(Lower(title \o <<" ">> \o content), high_priority_keywords),
                            reply.score)

\* The action strings of generate_action_items (each without its leading
\* pictograph).
urgent_actions ==
    << "IMMEDIATE: Convene emergency compliance review within 24 hours",
       "URGENT: Notify all stakeholders and halt affected processes if necessary" >>

area_actions(area) ==
    IF area = "Labeling"
    THEN << "Review and update all product labeling materials",
            "Audit current package inserts for compliance gaps" >>
    ELSE IF area = "Clinical Trials"
    THEN << "Assess impact on ongoing clinical studies",
            "Update study protocols if required" >>
    ELSE IF area = "Manufacturing"
    THEN << "Inspect manufacturing processes for compliance",
            "Update quality control procedures" >>
    ELSE IF area = "Pharmacovigilance"
    THEN << "Review safety monitoring procedures",
            "Update risk evaluation protocols" >>
    ELSE IF area = "Marketing"
    THEN << "Review all promotional materials for compliance",
            "Update marketing approval processes" >>
    ELSE <<>>

general_actions ==
    << "Document compliance assessment in regulatory files",
       "Set timeline for implementation based on regulatory deadlines" >>

\* for area in impact_areas: the actions of each area, in list order.
RECURSIVE areas_actions(_)
areas_actions(impact_areas) ==
    IF impact_areas = <<>> THEN <<>>
    ELSE area_actions(Head(impact_areas)) \o areas_actions(Tail(impact_areas))

\* actions[:6]
ActionLimit == 6

\* The list before the cap.
all_actions(risk_level, impact_areas) ==
    (IF risk_level = "high" THEN urgent_actions ELSE <<>>)
        \o areas_actions(impact_areas)
        \o general_actions

\* A faulty cap that keeps the last six actions.
top_actions_last(actions) ==
    SubSeq(actions, Max(1, Len(actions) - ActionLimit + 1), Len(actions))

\* actions[:6]
top_actions(actions) == SubSeq(actions, 1, Min(ActionLimit, Len(actions)))

\* generate_action_items(change_data)
generate_action_items(change_data) ==
    top_actions(all_actions(Get(change_data, "risk_level", "medium"),
                            Get(change_data, "impact_areas", <<>>)))

(***************************************************************************)
(* Calls on the AIEnhancer and on the tracker's classifiers.               *)
(***************************************************************************)
ContentGMP ==
    <<"G","M","P"," ","b","a","t","c","h"," ","r","e","c","o","r","d","s">>

ContentLabel ==
    <<"N","e","w"," ","l","a","b","e","l","i","n","g"," ","a","n","d"," ","d","o","s","a","g",
      "e"," ","g","u","i","d","a","n","c","e">>

ContentSafety ==
    <<"S","a","f","e","t","y"," ","m","o","n","i","t","o","r","i","n","g"," ","u","p","d","a",
      "t","e">>

ContentUrgent ==
    <<"U","R","G","E","N","T",":"," ","C","r","i","t","i","c","a","l"," ","s","h","o","r","t",
      "a","g","e">>

ContentMarketing ==
    <<"C","o","m","m","e","r","c","i","a","l"," ","l","a","u","n","c","h",":"," ","a","d","v",
      "e","r","t","i","s","i","n","g"," ","r","e","v","i","e","w">>

(***************************************************************************)
(* AIEnhancer: the summaries.                                              *)
(***************************************************************************)
\* text[:n]
Prefix(text, n) == SubSeq(text, 1, Min(n, Len(text)))

\* A sentence counts when its stripped length exceeds this.
MinSentenceLength == 10
\* The summary is made of this many sentences; a content with no more than
\* this many is returned as it is.
FallbackSentences == 2
\* Longest content returned as it is.
FallbackContentLimit == 200
\* Longest summary returned as it is.
FallbackSummaryLimit == 250

\* [s.strip() for s in content.split('.') if len(s.strip()) > 10]
fallback_sentences(content) ==
    LET parts == Split(content, ".")
        stripped == [i \in DOMAIN parts |-> Strip(parts[i])]
    IN  SelectSeq(stripped, LAMBDA t : Len(t) > MinSentenceLength)

\* A faulty summary that always joins the sentences, also when there are no
\* more than two.
fallback_summary_always_joins(content) ==
    LET sentences == fallback_sentences(content)
        summary == Join(Prefix(sentences, FallbackSentences), <<".", " ">>) \o <<".">>
    IN  IF Len(summary) > FallbackSummaryLimit
        THEN Prefix(summary, FallbackSummaryLimit) \o <<".", ".", ".">>
        ELSE summary

\* AIEnhancer._fallback_summary
fallback_summary(content) ==
    LET sentences == fallback_sentences(content)
        summary == Join(Prefix(sentences, FallbackSentences), <<".", " ">>) \o <<".">>
    IN  IF Len(sentences) <= FallbackSentences
        THEN IF Len(content) > FallbackContentLimit
             THEN Prefix(content, FallbackContentLimit) \o <<".", ".", ".">>
             ELSE content
        ELSE IF Len(summary) > FallbackSummaryLimit
             THEN Prefix(summary, FallbackSummaryLimit) \o <<".", ".", ".">>
             ELSE summary

\* re.sub(r'\s+', ' ', text): every run of whitespace becomes one space.
\* The first character of a run is replaced by the space, the others are
\* marked and dropped.
collapse_whitespace(text) ==
    LET marked == [i \in DOMAIN text |->
                      IF text[i] \notin Whitespace THEN text[i]
                      ELSE IF i > 1 /\ text[i - 1] \in Whitespace THEN "dropped"
                      ELSE " "]
    IN  SelectSeq(marked, LAMBDA ch : ch # "dropped")

\* The characters [^\w\s\.\,\;\:\!\?] does not match: word characters,
\* whitespace and six punctuation marks.
KeptChars ==
    { Upper[i] : i \in DOMAIN Upper } \cup { LowerOf[i] : i \in DOMAIN LowerOf }
        \cup { DigitChars[i] : i \in DOMAIN DigitChars } \cup {"_"}
        \cup Whitespace \cup {".", ",", ";", ":", "!", "?"}

\* AIEnhancer._clean_text
clean_text(text) ==
    Strip(SelectSeq(collapse_whitespace(text), LAMBDA ch : ch \in KeptChars))

\* Shortest content, raw and cleaned, that is given to the summarizer.
SmartSummaryMinLength == 100

\* A summary of the pipeline.
SummaryText ==
    <<"D","o","s","a","g","e"," ","r","a","i","s","e","d"," ","t","o"," ","2","0","m","g",".">>

\* What self.summarizer(clean_content[:1024], ...) can do: return a list with
\* a summary, raise, or return a list without an element.
SummarizerReplies ==
    { [kind |-> "summary", summary_text |-> SummaryText],
      [kind |-> "raises"],
      [kind |-> "empty"] }

\* A faulty summary that does not test whether the pipeline is loaded.
generate_smart_summary_unguarded(content, reply) ==
    IF Len(content) < SmartSummaryMinLength
    THEN fallback_summary(content)
    ELSE LET clean_content == clean_text(content)
         IN  IF Len(clean_content) < SmartSummaryMinLength THEN clean_content
             ELSE IF reply.kind = "summary" THEN reply.summary_text
             ELSE fallback_summary(content)

\* AIEnhancer.generate_smart_summary; reply is what the pipeline does if it
\* is called.
generate_smart_summary(content, reply) ==
    IF ~summarizer \/ Len(content) < SmartSummaryMinLength
    THEN fallback_summary(content)
    ELSE LET clean_content == clean_text(content)
         IN  IF Len(clean_content) < SmartSummaryMinLength THEN clean_content
             ELSE IF reply.kind = "summary" THEN reply.summary_text
             ELSE fallback_summary(content)

\* The titles and texts the classifiers are called with: scraped titles and
\* contents, and a diff as detect_changes classifies it.
Titles == {TitleRecall, TitleUpdate, <<>>}

Texts ==
    { ContentRecall, ContentDose1, ContentDose2, ContentPlain, ContentEmpty,
      ContentGMP, ContentLabel, ContentSafety, ContentUrgent, ContentMarketing,
      generate_diff(ContentDose1, ContentDose2) }

\* text repeated n times.
RECURSIVE Times(_, _)
Times(text, n) == IF n = 0 THEN <<>> ELSE text \o Times(text, n - 1)

\* A sentence of 161 characters with its full stop.
LongSentence ==
    Times(<<"T","h","e"," ","s","p","o","n","s","o","r"," ","s","h","a","l","l"," ","r","e","p","o","r","t"," ","a","d","v","e","r","s","e"," ","e","v","e","n","t","s"," ">>, 4) \o <<".">>

\* Three long sentences: the first two joined exceed FallbackSummaryLimit.
ContentLong3 == LongSentence \o <<" ">> \o LongSentence \o <<" ">> \o LongSentence

\* Two long sentences: the content exceeds FallbackContentLimit.
ContentLong2 == LongSentence \o <<" ">> \o LongSentence

\* A short sentence, then four that count, on two lines.
ContentNotes ==
    <<"O", "k", ".", " ">> \o ContentDose2 \o <<"\n">> \o ContentPlain

\* A content of more than SmartSummaryMinLength characters of which fewer
\* are left when it is cleaned.
ContentPadded ==
    ContentDose2 \o Times(<<" ", "*">>, 20) \o <<"\n">>

\* The contents the summaries are asked for.
SummaryTexts ==
    Texts \cup {ContentLong3, ContentLong2, ContentNotes, ContentPadded}

\* The area lists a change can carry: up to MaxAreas of the names the
\* classifiers emit.
MaxAreas == 3

AreaNames ==
    { "Clinical Trials", "Labeling", "Manufacturing", "Pharmacovigilance",
      "Marketing", "Regulatory Affairs", "General", "General Regulatory" }

AreaLists == UNION { [1..n -> AreaNames] : n \in 0..MaxAreas }

\* The dicts generate_action_items is called with; .get() covers absent keys.
ChangeData ==
    { [title |-> TitleUpdate, risk_level |-> r, impact_areas |-> l] :
          r \in {"high", "medium", "low"}, l \in AreaLists }
        \cup { [title |-> TitleUpdate, impact_areas |-> l] : l \in AreaLists }
        \cup { [title |-> TitleUpdate, risk_level |-> r] : r \in {"high", "low"} }

(***************************************************************************)
(* AIEnhancedTracker.process_changes_with_ai.                              *)
(***************************************************************************)
\* The names bound at module level in ai_enhancer when the function runs:
\* its imports (the transformers names only if that import succeeded), the
\* flag and the two classes.  process_changes_with_ai has no import of its
\* own, and the import in AIEnhancedTracker.__init__ binds a local name.
module_globals ==
    {"os", "warnings", "TRANSFORMERS_AVAILABLE", "AIEnhancer", "AIEnhancedTracker"}
        \cup (IF TRANSFORMERS_AVAILABLE
              THEN {"pipeline", "AutoTokenizer", "AutoModelForSequenceClassification",
                    "T5ForConditionalGeneration", "T5Tokenizer", "torch"}
              ELSE {})

\* The enhanced_change dict of one item, with its action items.
enhanced_change(item, summary_reply, sentiment_reply, t) ==
    LET urgency_analysis == assess_urgency_level(item.title, item.content, sentiment_reply)
        change == [source |-> item.source,
                   title |-> item.title,
                   url |-> item.url,
                   content |-> item.content,
                   ai_summary |-> generate_smart_summary(item.content, summary_reply),
                   impact_areas |-> analyze_impact_areas(item.content),
                   risk_level |-> urgency_analysis.risk_level,
                   confidence |-> Get(urgency_analysis, "confidence", Float(50)),
                   reasoning |-> Get(urgency_analysis, "reasoning", <<>>),
                   detected_at |-> isoformat(t)]
    IN  [k \in DOMAIN change \cup {"action_items"} |->
            IF k = "action_items" THEN generate_action_items(change) ELSE change[k]]

\* How a call ends: it returns a value, or an exception leaves it.
Returns(value) == [raised |-> "no", value |-> value]
Raises(exception) == [raised |-> exception, value |-> <<>>]

\* The loop of process_changes_with_ai from item i on, enhanced_changes
\* holding the records of the items before.  item['content'], item['title'],
\* item['source'] and item['url'] are read before datetime is looked up.
RECURSIVE process_from(_, _, _, _, _, _)
process_from(scraped_data, i, enhanced_changes, summary_reply, sentiment_reply, t) ==
    IF i > Len(scraped_data) THEN Returns(enhanced_changes)
    ELSE IF ~WellFormed(scraped_data[i]) THEN Raises("KeyError")
    ELSE IF "datetime" \notin module_globals THEN Raises("NameError")
    ELSE process_from(scraped_data, i + 1,
                      Append(enhanced_changes,
                             enhanced_change(scraped_data[i], summary_reply,
                                             sentiment_reply, t)),
                      summary_reply, sentiment_reply, t)

\* AIEnhancedTracker.process_changes_with_ai(scraped_data) at time t; the
\* pipelines, where called, reply as given.
process_changes_with_ai(scraped_data, summary_reply, sentiment_reply, t) ==
    process_from(scraped_data, 1, <<>>, summary_reply, sentiment_reply, t)

\* The scraped items handed to process_changes_with_ai, and the lists of
\* at most MaxBatch of them.
ScrapedItems ==
    { Item("FDA_DRUGS", TitleRecall, Url1, ContentRecall),
      Item("FDA_NEWS", TitleUpdate, Url1, ContentNotes),
      Item("FDA_NEWS", TitleUpdate, Url2, ContentPlain),
      [source |-> "FDA_NEWS", title |-> TitleUpdate, url |-> Url1] }

ScrapedLists == UNION { [1..n -> ScrapedItems] : n \in 0..MaxBatch }

\* The calls made: the operation and its arguments.
Calls ==
    { [op |-> "assess_risk_level", title |-> title, content |-> content] :
          title \in Titles, content \in Texts }
        \cup { [op |-> "identify_impact_areas", content |-> content] : content \in Texts }
        \cup { [op |-> "_rule_based_risk_assessment", text |-> title \o <<" ">> \o content] :
                   title \in Titles, content \in Texts }
        \cup { [op |-> "_rule_based_impact_analysis", content |-> content] : content \in Texts }
        \cup { [op |-> "analyze_impact_areas", content |-> content] : content \in Texts }
        \cup { [op |-> "assess_urgency_level", title |-> title, content |-> content,
                reply |-> reply] :
                   title \in Titles, content \in Texts, reply \in SentimentReplies }
        \cup { [op |-> "generate_action_items", change_data |-> change_data] :
                   change_data \in ChangeData }
        \cup { [op |-> "_fallback_summary", content |-> content] :
                   content \in SummaryTexts }
        \cup { [op |-> "generate_smart_summary", content |-> content, reply |-> reply] :
                   content \in SummaryTexts, reply \in SummarizerReplies }
        \cup { [op |-> "process_changes_with_ai", scraped_data |-> scraped_data,
                summary_reply |-> summary_reply, sentiment_reply |-> sentiment_reply] :
                   scraped_data \in ScrapedLists, summary_reply \in SummarizerReplies,
                   sentiment_reply \in SentimentReplies }

\* The call has returned; the call with its result.
Returned(c) == "result" \in DOMAIN c
Return(c, result) ==
    [k \in DOMAIN c \cup {"result"} |-> IF k = "result" THEN result ELSE c[k]]

\* The call op is made and has not returned.
Pending(op) == out.op = op /\ ~Returned(out)

\* _load_models assigns the three pipelines in turn inside one try block:
\* the first that fails to load leaves itself and the later ones None.
\* <<summarizer, classifier, sentiment_analyzer>> loaded.
load_models ==
    { <<FALSE, FALSE, FALSE>>, <<TRUE, FALSE, FALSE>>,
      <<TRUE, TRUE, FALSE>>, <<TRUE, TRUE, TRUE>> }

\* AIEnhancer(): all three are None; with the library, _load_models runs.
AIEnhancer_init ==
    /\ TRANSFORMERS_AVAILABLE \in BOOLEAN
    /\ \E m \in (IF TRANSFORMERS_AVAILABLE THEN load_models
                 ELSE {<<FALSE, FALSE, FALSE>>}) :
          /\ summarizer = m[1]
          /\ classifier = m[2]
          /\ sentiment_analyzer = m[3]

\* AIEnhancedTracker(): the tracker is constructed; the transformers import
\* succeeded or not, and with it _load_models loaded the sentiment pipeline
\* or left it None.  One of the calls is about to be made.
InitAI ==
    /\ init_database
    /\ AIEnhancer_init
    /\ out \in Calls

\* tracker.assess_risk_level(title, content)
AssessRiskLevel ==
    /\ Pending("assess_risk_level")
    /\ out' = Return(out, assess_risk_level(out.title, out.content))
    /\ UNCHANGED <<trackervars, enhancervars>>

\* tracker.identify_impact_areas(content)
IdentifyImpactAreas ==
    /\ Pending("identify_impact_areas")
    /\ out' = Return(out, identify_impact_areas(out.content))
    /\ UNCHANGED <<trackervars, enhancervars>>

\* enhancer._rule_based_risk_assessment(text)
RuleBasedRiskAssessment ==
    /\ Pending("_rule_based_risk_assessment")
    /\ out' = Return(out, rule_based_risk_assessment(out.text))
    /\ UNCHANGED <<trackervars, enhancervars>>

\* enhancer._rule_based_impact_analysis(content)
RuleBasedImpactAnalysis ==
    /\ Pending("_rule_based_impact_analysis")
    /\ out' = Return(out, rule_based_impact_analysis(out.content))
    /\ UNCHANGED <<trackervars, enhancervars>>

\* enhancer.analyze_impact_areas(content)
AnalyzeImpactAreas ==
    /\ Pending("analyze_impact_areas")
    /\ out' = Return(out, analyze_impact_areas(out.content))
    /\ UNCHANGED <<trackervars, enhancervars>>

\* enhancer.assess_urgency_level(title, content); the pipeline, if loaded,
\* replies in one of the ways it can.
AssessUrgencyLevel ==
    /\ Pending("assess_urgency_level")
    /\ out' = Return(out, assess_urgency_level(out.title, out.content, out.reply))
    /\ UNCHANGED <<trackervars, enhancervars>>

\* enhancer.generate_action_items(change_data)
GenerateActionItems ==
    /\ Pending("generate_action_items")
    /\ out' = Return(out, generate_action_items(out.change_data))
    /\ UNCHANGED <<trackervars, enhancervars>>

\* enhancer._fallback_summary(content)
FallbackSummary ==
    /\ Pending("_fallback_summary")
    /\ out' = Return(out, fallback_summary(out.content))
    /\ UNCHANGED <<trackervars, enhancervars>>

\* enhancer.generate_smart_summary(content); the pipeline, if loaded and
\* called, replies in one of the ways it can.
GenerateSmartSummary ==
    /\ Pending("generate_smart_summary")
    /\ out' = Return(out, generate_smart_summary(out.content, out.reply))
    /\ UNCHANGED <<trackervars, enhancervars>>

\* ai_tracker.process_changes_with_ai(scraped_data): the tables are not
\* touched.
ProcessChangesWithAI ==
    /\ Pending("process_changes_with_ai")
    /\ out' = Return(out, process_changes_with_ai(out.scraped_data, out.summary_reply,
                                                  out.sentiment_reply, now))
    /\ UNCHANGED <<trackervars, enhancervars>>

NextAI ==
    \/ AssessRiskLevel
    \/ IdentifyImpactAreas
    \/ RuleBasedRiskAssessment
    \/ RuleBasedImpactAnalysis
    \/ AnalyzeImpactAreas
    \/ AssessUrgencyLevel
    \/ GenerateActionItems
    \/ FallbackSummary
    \/ GenerateSmartSummary
    \/ ProcessChangesWithAI

SpecAI == InitAI /\ [][NextAI]_vars


(***************************************************************************)
(* The whole pipeline: an AIEnhancedTracker whose tracker runs scans, or   *)
(* on whose classifiers one call is made.                                  *)
(***************************************************************************)
\* AIEnhancedTracker(): as InitAI; a call on a classifier is about to be
\* made, or none and the tracker runs scans.  The scans read nothing of the
\* enhancer, so they are followed for one of its configurations.
InitAll ==
    /\ init_database
    /\ AIEnhancer_init
    /\ out \in (IF TRANSFORMERS_AVAILABLE THEN Calls ELSE Calls \cup {NoCall})

NextAll ==
    \/ \E c \in SeqConns :
        \/ Begin(c) /\ out = NoCall
        \/ Select(c)
        \/ SelectKeyError(c)
        \/ ApplyNew(c)
        \/ ApplyUpdated(c)
        \/ ApplyUnchanged(c)
        \/ ApplyKeyError(c)
        \/ StoreChanges(c)
        \/ Commit(c)
        \/ Unwind(c)
    \/ IdentifyImpactAreas
    \/ RuleBasedImpactAnalysis
    \/ AnalyzeImpactAreas
    \/ AssessRiskLevel
    \/ RuleBasedRiskAssessment
    \/ AssessUrgencyLevel
    \/ GenerateActionItems
    \/ FallbackSummary
    \/ GenerateSmartSummary
    \/ ProcessChangesWithAI

SpecAll == InitAll /\ [][NextAll]_vars

(***************************************************************************)
(* get_recent_changes.                                                     *)
(***************************************************************************)
\* timedelta(days=days), in ticks of the clock: a tick is a day.
timedelta(days) == days

\* The code of a character of a timestamp: the digits are in the order of
\* their character codes.
Code(ch) == CHOOSE i \in DOMAIN DigitChars : DigitChars[i] = ch

\* a > b on TEXT values, as SQLite compares them: by the first character
\* that differs, the longer text being greater than its prefix.
RECURSIVE TextGreater(_, _)
TextGreater(a, b) ==
    IF a = <<>> THEN FALSE
    ELSE IF b = <<>> THEN TRUE
    ELSE IF Head(a) # Head(b) THEN Code(Head(a)) > Code(Head(b))
    ELSE TextGreater(Tail(a), Tail(b))

\* A faulty query that also selects the rows stamped with the cutoff itself.
select_recent_inclusive(table, cutoff_date) ==
    SelectSeq(table, LAMBDA r : ~TextGreater(cutoff_date, isoformat(r.detected_at)))

\* SELECT * FROM detected_changes WHERE detected_at > ?: the rows whose
\* timestamp text is greater than the cutoff text, in table order.
select_recent(table, cutoff_date) ==
    SelectSeq(table, LAMBDA r : TextGreater(isoformat(r.detected_at), cutoff_date))

\* ORDER BY detected_at DESC: the orders of the selected rows in which no
\* row comes before one with a greater timestamp; rows with equal timestamps
\* come in any order.
order_by_detected_at_desc(rows) ==
    { [i \in DOMAIN rows |-> rows[p[i]]] :
        p \in { q \in [DOMAIN rows -> DOMAIN rows] :
                   /\ \A i, j \in DOMAIN rows : i # j => q[i] # q[j]
                   /\ \A i, j \in DOMAIN rows :
                         i < j => ~TextGreater(isoformat(rows[q[j]].detected_at),
                                               isoformat(rows[q[i]].detected_at)) } }

\* dict(zip(columns, row)) with impact_areas replaced by json.loads of it.
change_dict(row) == [row EXCEPT !.impact_areas = json_loads(@)]

\* get_recent_changes(days) at time t on the committed log: the lists it can
\* return.
get_recent_changes(table, days, t) ==
    LET cutoff_date == isoformat(t - timedelta(days))
    IN  { [i \in DOMAIN rows |-> change_dict(rows[i])] :
            rows \in order_by_detected_at_desc(select_recent(table, cutoff_date)) }

\* The periods asked for.
Days == 0..MaxClock

\* tracker.get_recent_changes(days), between two scans: its own connection
\* reads the committed log and nothing is written.
GetRecentChanges ==
    /\ out = NoCall
    /\ \A c \in Conns : ~InFlight(c)
    /\ \E days \in Days :
         /\ days <= now
         /\ \E result \in get_recent_changes(changes, days, now) :
               out' = Return([op |-> "get_recent_changes", days |-> days, at |-> now],
                             result)
    /\ UNCHANGED <<trackervars, enhancervars>>

\* Scans of the tracker, and one query of the log after them.
NextRecent ==
    \/ \E c \in SeqConns :
        \/ Begin(c) /\ out = NoCall
        \/ Select(c)
        \/ SelectKeyError(c)
        \/ ApplyNew(c)
        \/ ApplyUpdated(c)
        \/ ApplyUnchanged(c)
        \/ ApplyKeyError(c)
        \/ StoreChanges(c)
        \/ Commit(c)
        \/ Unwind(c)
    \/ GetRecentChanges

SpecRecent == Init /\ [][NextRecent]_vars

(***************************************************************************)
(* Properties.                                                             *)
(***************************************************************************)
\* The log rows of one URL, in log order.
RowsOf(table, u) == SelectSeq(table, LAMBDA r : r.url = u)

\* The items of a batch that share a URL carry the same content.
ConsistentBatch(b) ==
    \A i, j \in DOMAIN b :
        (HasKey(b[i], "url") /\ HasKey(b[j], "url") /\ b[i].url = b[j].url)
            => (HasKey(b[i], "content") /\ HasKey(b[j], "content")
                /\ b[i].content = b[j].content)

\* A call has returned that repeated the batch of the call returned just before it.
Repeated(c) == pc[c] = "returned" /\ call[c].repeat

\* The repeated call found nothing and left both tables as they were.
Idle(c) == detected[c] = <<>> /\ docs = call[c].docs /\ changes = call[c].changes

\* C1 as stated: for every batch, also one that repeats a URL, a second
\* detect_changes on the same batch right after the first returns no change
\* and leaves regulatory_documents and detected_changes unchanged.
C1_IdempotentAnyBatch == \A c \in Conns : Repeated(c) => Idle(c)

\* C1 amended: the second detect_changes on the same batch returns no change
\* and leaves both tables unchanged, provided the items of the batch that
\* share a URL carry the same content.
C1_IdempotentConsistentBatch ==
    \A c \in Conns : (Repeated(c) /\ ConsistentBatch(batch[c])) => Idle(c)

\* A repeated batch with the same URL twice (same content) whose first call
\* stored a document and logged a change.
C1_Witness ==
    /\ Repeated(1)
    /\ ConsistentBatch(batch[1])
    /\ Len(batch[1]) = 2
    /\ batch[1][1].url = batch[1][2].url
    /\ docs # <<>>
    /\ changes # <<>>

\* C2: for every URL the committed log holds as many rows as inserts and
\* updates were committed on the URL's document; the first row is 'new', the
\* later ones 'updated'.
C2_LogMatchesWrites ==
    \A u \in URLs :
        LET rows == RowsOf(changes, u)
        IN  /\ Len(rows) = nwrites[u]
            /\ \A i \in DOMAIN rows :
                   rows[i].change_type = IF i = 1 THEN "new" ELSE "updated"

\* A URL inserted and then updated, twice in one call: three writes, three rows.
C2_Witness ==
    /\ ~InFlight(1)
    /\ \E u \in URLs : nwrites[u] >= 3 /\ Len(RowsOf(changes, u)) = nwrites[u]
    /\ \E c \in Conns : Len(detected[c]) = 2

\* At most one row per URL, and every row's hash is the hash of its content.
SnapshotOk(table) ==
    /\ \A i, j \in DOMAIN table : table[i].url = table[j].url => i = j
    /\ \A i \in DOMAIN table :
           table[i].content_hash = calculate_content_hash(table[i].content)

\* C3: in the committed table any reader sees, and in the table a call in
\* flight reads, there is at most one row per URL and content_hash is the
\* hash of the row's content.
C3_SnapshotInvariant ==
    /\ SnapshotOk(Committed.docs)
    /\ \A c \in Conns : SnapshotOk(View(c).docs)

\* A call in flight has updated a stored document and not yet committed,
\* while the committed table holds two documents.
C3_Witness ==
    /\ pc[1] \in {"select", "apply", "store", "commit"}
    /\ tx[1].active
    /\ Len(docs) = 2
    /\ \E i \in DOMAIN docs : tx[1].docs[i].content # docs[i].content

\* Connection c finishes the item it has fetched.
Processes(c) == pc[c] = "apply" /\ pc'[c] # "apply"

\* The document rows connection c reads, before and after the step.
DocsBefore(c) == View(c).docs
DocsAfter(c) == View(c)'.docs

\* The change appended to detected_changes by the step.
Emitted(c) == detected'[c][Len(detected'[c])]
EmitsOne(c) == detected'[c] = Append(detected[c], Emitted(c))

\* The stored row of a URL (there is one, by C3).
RowOf(table, u) == table[CHOOSE i \in DOMAIN table : table[i].url = u]

\* Classification of a text on its own: the risk rule with no title.
RiskOfText(text) == assess_risk_level(<<>>, text)

\* A well-formed item whose URL is not stored is processed.
NewCase(c) ==
    /\ Processes(c)
    /\ WellFormed(CurrentItem(c))
    /\ ~UrlStored(DocsBefore(c), CurrentItem(c).url)

\* One row with the item's content and fingerprint is inserted, one 'new'
\* change with the full content and the given risk level is emitted.
NewEffect(c, risk) ==
    LET item == CurrentItem(c)
        n == Len(DocsBefore(c))
    IN  /\ EmitsOne(c)
        /\ Emitted(c).change_type = "new"
        /\ Emitted(c).url = item.url
        /\ Emitted(c).content = item.content
        /\ Emitted(c).risk_level = risk
        /\ Emitted(c).impact_areas = identify_impact_areas(item.content)
        /\ Len(DocsAfter(c)) = n + 1
        /\ SubSeq(DocsAfter(c), 1, n) = DocsBefore(c)
        /\ DocsAfter(c)[n + 1].url = item.url
        /\ DocsAfter(c)[n + 1].content = item.content
        /\ DocsAfter(c)[n + 1].content_hash = calculate_content_hash(item.content)

\* C4 as stated: an item with an unknown URL inserts one row with the full
\* content and its fingerprint and emits one 'new' change with the full
\* content, whose risk level and impact areas classify that content.
C4_NewClassifiesContent ==
    [][\A c \in Conns :
          NewCase(c) => NewEffect(c, RiskOfText(CurrentItem(c).content))]_vars

\* C4 amended: as stated, except that the risk level is the classification
\* of the item's title followed by the full content.
C4_NewClassifiesTitleAndContent ==
    [][\A c \in Conns :
          NewCase(c) => NewEffect(c, assess_risk_level(CurrentItem(c).title,
                                                       CurrentItem(c).content))]_vars

\* The new-document scenario: the recall notice was just inserted and its
\* 'new' change is high risk and names Pharmacovigilance.
C4_Witness ==
    \E i \in DOMAIN detected[1] :
        /\ detected[1][i].change_type = "new"
        /\ detected[1][i].title = TitleRecall
        /\ detected[1][i].content = ContentRecall
        /\ detected[1][i].risk_level = "high"
        /\ \E k \in DOMAIN detected[1][i].impact_areas :
               detected[1][i].impact_areas[k] = "Pharmacovigilance"
        /\ tx[1].active
        /\ UrlStored(tx[1].docs, Url1)

\* An item whose URL is stored with the item's own fingerprint is processed.
UnchangedCase(c) ==
    /\ Processes(c)
    /\ UrlStored(DocsBefore(c), CurrentItem(c).url)
    /\ RowOf(DocsBefore(c), CurrentItem(c).url).content_hash
           = calculate_content_hash(CurrentItem(c).content)

\* C5: an item stored with the same fingerprint emits no change, raises
\* nothing and writes nothing: the tables the call reads, the committed
\* tables and the open transaction are unchanged, last_updated included.
C5_UnchangedIsNoOp ==
    [][\A c \in Conns :
          UnchangedCase(c) =>
              /\ pc'[c] # "raised"
              /\ detected'[c] = detected[c]
              /\ DocsAfter(c) = DocsBefore(c)
              /\ tx' = tx
              /\ docs' = docs
              /\ changes' = changes
              /\ nwrites' = nwrites]_vars

\* A call over stored documents returned no change and left the tables and
\* every last_updated as they were, some ticks after the rows were written.
C5_Witness ==
    /\ pc[1] = "returned"
    /\ Len(batch[1]) = 2
    /\ detected[1] = <<>>
    /\ docs = call[1].docs
    /\ \A i \in DOMAIN batch[1] : UrlStored(docs, batch[1][i].url)
    /\ \A i \in DOMAIN docs : docs[i].last_updated < now - 2

\* A well-formed item whose URL is stored with another fingerprint is processed.
UpdatedCase(c) ==
    /\ Processes(c)
    /\ WellFormed(CurrentItem(c))
    /\ UrlStored(DocsBefore(c), CurrentItem(c).url)
    /\ RowOf(DocsBefore(c), CurrentItem(c).url).content_hash
           # calculate_content_hash(CurrentItem(c).content)

\* The diff of the stored content against the item's content.
DiffOf(c) ==
    generate_diff(RowOf(DocsBefore(c), CurrentItem(c).url).content, CurrentItem(c).content)

\* C6: an item stored with a different fingerprint emits one 'updated'
\* change whose content is generate_diff(stored content, item content), and
\* the stored content and hash become the item's content and fingerprint.
C6_UpdatedCarriesDiff ==
    [][\A c \in Conns :
          UpdatedCase(c) =>
              LET item == CurrentItem(c)
              IN  /\ EmitsOne(c)
                  /\ Emitted(c).change_type = "updated"
                  /\ Emitted(c).url = item.url
                  /\ Emitted(c).content = DiffOf(c)
                  /\ Len(DocsAfter(c)) = Len(DocsBefore(c))
                  /\ RowOf(DocsAfter(c), item.url).content = item.content
                  /\ RowOf(DocsAfter(c), item.url).content_hash
                         = calculate_content_hash(item.content)
                  /\ \A i \in DOMAIN DocsBefore(c) :
                         DocsBefore(c)[i].url # item.url
                             => DocsAfter(c)[i] = DocsBefore(c)[i]]_vars

\* The update scenario: the dosage text grew on the same line, and the
\* 'updated' change carries the diff of the two texts.
C6_Witness ==
    \E i \in DOMAIN detected[1] :
        /\ detected[1][i].change_type = "updated"
        /\ detected[1][i].content = generate_diff(ContentDose1, ContentDose2)
        /\ detected[1][i].risk_level = "medium"
        /\ tx[1].active
        /\ RowOf(tx[1].docs, Url1).content = ContentDose2

\* C7 as stated: the risk level and impact areas of an 'updated' change are
\* the classification of the diff text and depend on nothing else.
C7_UpdatedClassifiesDiffOnly ==
    [][\A c \in Conns :
          UpdatedCase(c) =>
              /\ Emitted(c).risk_level = RiskOfText(DiffOf(c))
              /\ Emitted(c).impact_areas = identify_impact_areas(DiffOf(c))]_vars

\* C7 amended: the impact areas of an 'updated' change are the classification
\* of the diff text; its risk level is the classification of the item's
\* title followed by the diff text (not of the full new content).
C7_UpdatedClassifiesTitleAndDiff ==
    [][\A c \in Conns :
          UpdatedCase(c) =>
              /\ Emitted(c).risk_level = assess_risk_level(CurrentItem(c).title, DiffOf(c))
              /\ Emitted(c).impact_areas = identify_impact_areas(DiffOf(c))]_vars

\* An 'updated' change whose diff classifies differently from the new
\* content: the removed recall text makes the diff high risk.
C7_Witness ==
    \E i \in DOMAIN detected[1] :
        /\ detected[1][i].change_type = "updated"
        /\ detected[1][i].title = TitleUpdate
        /\ detected[1][i].content = generate_diff(ContentRecall, ContentDose2)
        /\ detected[1][i].risk_level = "high"
        /\ RiskOfText(ContentDose2) = "medium"
        /\ detected[1][i].impact_areas # identify_impact_areas(ContentDose2)

\* C8: for every URL of a committed batch, the stored content is the content
\* of the item processed last for that URL, and the stored hash its fingerprint.
C8_LatestContent ==
    \A u \in URLs :
        latest[u] # <<>> =>
            /\ UrlStored(docs, u)
            /\ RowOf(docs, u).content = latest[u][1]
            /\ RowOf(docs, u).content_hash = calculate_content_hash(latest[u][1])

\* No call in flight, and a URL written three times holds the last content.
C8_Witness ==
    /\ \A c \in Conns : ~InFlight(c)
    /\ nwrites[Url1] >= 3
    /\ latest[Url1] = <<ContentDose2>>
    /\ RowOf(docs, Url1).content = ContentDose2

\* C9: detect_changes never raises because of a bad item, and when the call
\* is over every well-formed item of the batch has its snapshot stored.
C9_BadItemIsolated ==
    \A c \in Conns :
        /\ pc[c] \notin {"raised", "failed"}
        /\ ~InFlight(c) =>
               \A i \in DOMAIN batch[c] :
                   WellFormed(batch[c][i]) => UrlStored(docs, batch[c][i].url)

\* The rows a returned call appended to the log are the last rows of the
\* committed log, one per returned change, in order; its documents are in
\* the committed table; nothing of the call is left uncommitted.
ReturnCommitted(c) ==
    pc[c] = "returned" =>
        LET n == Len(detected[c])
            base == Len(changes) - n
        IN  /\ ~tx[c].active
            /\ lock # c
            /\ base >= 0
            /\ \A i \in 1..n :
                   /\ changes[base + i].url = detected[c][i].url
                   /\ changes[base + i].change_type = detected[c][i].change_type
                   /\ changes[base + i].detected_at = detected[c][i].detected_at
                   /\ UrlStored(docs, detected[c][i].url)
                   /\ RowOf(docs, detected[c][i].url).content
                          = seen[c][detected[c][i].url][1]

\* The committed documents change in a step exactly when the committed log does.
AtomicVisible == (docs' # docs) <=> (changes' # changes)

\* C10: when detect_changes returns, all its document writes and log rows
\* are committed; and the committed tables, which is what other connections
\* read, never show a document write without its log row or the reverse.
C10_AtomicSynchronousCommit ==
    /\ [](\A c \in Conns : ReturnCommitted(c))
    /\ [][AtomicVisible]_vars

\* A call returned two changes on top of an earlier call's log rows.
C10_Witness ==
    /\ pc[1] = "returned"
    /\ Len(detected[1]) = 2
    /\ Len(changes) >= 3
    /\ Len(docs) = 2

(***************************************************************************)
(* Concurrent scans.                                                       *)
(***************************************************************************)
\* Connection c runs the UPDATE of the item it has fetched.
UpdateStep(c) ==
    /\ Processes(c)
    /\ Len(detected'[c]) = Len(detected[c]) + 1
    /\ Emitted(c).change_type = "updated"

\* The content the step's diff was computed against is the content the
\* step's UPDATE replaces.
DiffAgainstReplaced(c) ==
    fetched[c][1].content = RowOf(DocsBefore(c), CurrentItem(c).url).content

\* C11: with two detect_changes calls in flight on one database, the SELECT
\* and the UPDATE of a URL are not separated by another call's write: every
\* 'updated' change is the diff against the content its UPDATE replaces.
C11_NoLostUpdate ==
    [][\A c \in Conns : UpdateStep(c) => DiffAgainstReplaced(c)]_vars

\* The state of a URL's snapshot in a table: its stored content, if any.
StateOf(table, u) == IF UrlStored(table, u) THEN <<RowOf(table, u).content>> ELSE <<>>

\* The step appends a change to the list connection c will return and log.
Records(c) == Len(detected'[c]) = Len(detected[c]) + 1

\* C12: also with two calls in flight, a change is recorded exactly when the
\* snapshot of its URL takes a new state: every change a call appends goes
\* with a change of that URL's stored content, and every change of a URL's
\* stored content goes with one appended change for that URL.
C12_ExactlyOnce ==
    [][\A c \in Conns :
          Processes(c) =>
              /\ Records(c) =>
                     StateOf(DocsAfter(c), Emitted(c).url)
                         # StateOf(DocsBefore(c), Emitted(c).url)
              /\ \A u \in URLs :
                     StateOf(DocsAfter(c), u) # StateOf(DocsBefore(c), u)
                         => Records(c) /\ Emitted(c).url = u]_vars

(***************************************************************************)
(* Order of the returned list and of the log.                              *)
(***************************************************************************)
\* The change is the change of the item: same source, title and URL.
ChangeOfItem(change, item) ==
    /\ change.source = item.source
    /\ change.title = item.title
    /\ change.url = item.url

\* The log row is the row of the change.
RowOfChange(row, change) ==
    /\ row.source = change.source
    /\ row.title = change.title
    /\ row.url = change.url
    /\ row.change_type = change.change_type
    /\ row.risk_level = change.risk_level
    /\ row.summary = change.summary
    /\ row.impact_areas = json_dumps(change.impact_areas)
    /\ row.detected_at = change.detected_at

\* list is a subsequence of the first n items of b: its changes belong to
\* items at increasing positions.
StableFilter(list, b, n) ==
    \E f \in [DOMAIN list -> 1..n] :
        /\ \A i, j \in DOMAIN list : i < j => f[i] < f[j]
        /\ \A i \in DOMAIN list : WellFormed(b[f[i]]) /\ ChangeOfItem(list[i], b[f[i]])

\* A processed item that was new or updated appends its change at the end of
\* the list, any other processed item leaves the list as it is.
AppendsInOrder(c) ==
    (Processes(c) /\ pc'[c] # "raised") =>
        IF NewCase(c) \/ UpdatedCase(c)
        THEN /\ EmitsOne(c)
             /\ ChangeOfItem(Emitted(c), CurrentItem(c))
        ELSE detected'[c] = detected[c]

\* Between the items and up to the return the list does not change.
KeepsList(c) ==
    (pc[c] \in {"select", "store", "commit"} /\ pc'[c] # "failed")
        => detected'[c] = detected[c]

\* The commit appends one row per returned change to the log, in list order.
LogsInOrder(c) ==
    (pc[c] = "commit" /\ pc'[c] = "returned") =>
        LET n == Len(detected[c])
        IN  /\ Len(changes') = Len(changes) + n
            /\ SubSeq(changes', 1, Len(changes)) = changes
            /\ \A i \in 1..n : RowOfChange(changes'[Len(changes) + i], detected[c][i])

\* C13: the list detect_changes returns holds exactly the changes of the
\* items that were new or updated, in the order of those items in the batch,
\* and the log rows of the call are appended in that same order.
C13_StableOrder ==
    /\ [][\A c \in Conns : AppendsInOrder(c) /\ KeepsList(c) /\ LogsInOrder(c)]_vars
    /\ [](\A c \in Conns :
             InFlight(c) \/ pc[c] = "returned"
                 => StableFilter(detected[c], batch[c],
                                 IF pc[c] \in {"select", "apply"} THEN idx[c] - 1
                                 ELSE Len(batch[c])))

\* A call returned two changes for a batch that names the second URL first,
\* on top of an earlier log: list and log follow the batch.
C13_Witness ==
    /\ pc[1] = "returned"
    /\ Len(detected[1]) = 2
    /\ batch[1][1].url = Url2 /\ batch[1][2].url = Url1
    /\ detected[1][1].url = Url2 /\ detected[1][2].url = Url1
    /\ Len(changes) >= 3
    /\ changes[Len(changes) - 1].url = Url2
    /\ changes[Len(changes)].url = Url1

(***************************************************************************)
(* The rule-based classifiers.                                             *)
(***************************************************************************)
\* The call op has returned.
Done(op) == out.op = op /\ Returned(out)

\* The lower-cased text contains one of the terms.
HasTerm(text, terms) == \E i \in DOMAIN terms : Contains(Lower(text), terms[i])

\* The decision rule: high exactly with a high-risk term, medium exactly
\* with a medium-risk term and no high-risk term, low exactly with neither.
RiskDecision(risk, text, high, medium) ==
    /\ risk \in {"high", "medium", "low"}
    /\ risk = "high" <=> HasTerm(text, high)
    /\ risk = "medium" <=> (~HasTerm(text, high) /\ HasTerm(text, medium))
    /\ risk = "low" <=> (~HasTerm(text, high) /\ ~HasTerm(text, medium))

\* The confidence of each branch of _rule_based_risk_assessment.
BranchConfidence(risk) ==
    IF risk = "high" THEN Float(80) ELSE IF risk = "medium" THEN Float(70) ELSE Float(60)

\* C14: assess_risk_level and _rule_based_risk_assessment return 'high'
\* exactly when the lower-cased text holds a high-risk term, 'medium' exactly
\* when it holds a medium-risk term and no high-risk term, 'low' otherwise,
\* and the confidence is the constant of the branch taken.
C14_RiskRulePrecedence ==
    /\ Done("assess_risk_level") =>
           RiskDecision(out.result, out.title \o <<" ">> \o out.content,
                        high_risk_keywords, medium_risk_keywords)
    /\ Done("_rule_based_risk_assessment") =>
           /\ RiskDecision(out.result.risk_level, out.text,
                           rule_high_risk_keywords, rule_medium_risk_keywords)
           /\ out.result.confidence = BranchConfidence(out.result.risk_level)

\* A text with one high-risk term (in the title) and three medium-risk terms
\* is assessed high with confidence 0.8.
C14_Witness ==
    /\ Done("_rule_based_risk_assessment")
    /\ out.text = TitleRecall \o <<" ">> \o ContentLabel
    /\ CountKeywords(Lower(out.text), rule_medium_risk_keywords) = 3
    /\ CountKeywords(Lower(out.text), rule_high_risk_keywords) = 1
    /\ out.result.risk_level = "high"
    /\ out.result.confidence = Float(80)

\* No category of the table reaches the threshold of keyword hits.
NoCategory(table, content, threshold) ==
    \A i \in DOMAIN table :
        CountKeywords(Lower(content), table[i].keywords) < threshold

Sentinels == {"General", "General Regulatory"}

\* The list names none of the six categories.
HoldsNoCategory(list) == \A i \in DOMAIN list : list[i] \in Sentinels

\* The list is not empty; it is the sentinel alone exactly when no category
\* qualifies, and holds no sentinel otherwise.
AreasOrSentinel(list, sentinel, none) ==
    /\ list # <<>>
    /\ none <=> list = <<sentinel>>
    /\ ~none => \A i \in DOMAIN list : list[i] \notin Sentinels

\* The list is not empty, and a sentinel in it is its only element.
NonEmptyAreas(list) ==
    /\ list # <<>>
    /\ (\E i \in DOMAIN list : list[i] \in Sentinels) => Len(list) = 1

\* The changes of the calls in flight or returned, and the log rows
\* committed or written, carry a non-empty impact_areas list.
ChangesHaveAreas ==
    /\ \A c \in Conns :
           /\ \A i \in DOMAIN detected[c] : NonEmptyAreas(detected[c][i].impact_areas)
           /\ \A i \in DOMAIN View(c).changes :
                  NonEmptyAreas(json_loads(View(c).changes[i].impact_areas))
    /\ \A i \in DOMAIN changes : NonEmptyAreas(json_loads(changes[i].impact_areas))

\* The two simple variants return the categories with a keyword hit, or
\* 'General' alone.
SimpleVariantsHaveAreas ==
    /\ Done("identify_impact_areas") =>
           AreasOrSentinel(out.result, "General", NoCategory(areas, out.content, 1))
    /\ Done("_rule_based_impact_analysis") =>
           AreasOrSentinel(out.result, "General", NoCategory(rule_areas, out.content, 1))

\* C15 as stated: the three functions never return an empty list; the
\* sentinel, 'General' and for analyze_impact_areas 'General Regulatory', is
\* returned alone exactly when no category qualifies; every change and every
\* log row has a non-empty impact_areas list.
C15_SentinelPerFunction ==
    /\ SimpleVariantsHaveAreas
    /\ Done("analyze_impact_areas") =>
           AreasOrSentinel(out.result, "General Regulatory", HoldsNoCategory(out.result))
    /\ ChangesHaveAreas

\* C15 amended: as stated, except that analyze_impact_areas returns
\* 'General Regulatory' as sentinel only when the transformers library is
\* available; without it, it is the rule-based analysis and its sentinel is
\* 'General'.
C15_SentinelPerVariant ==
    /\ SimpleVariantsHaveAreas
    /\ Done("analyze_impact_areas") =>
           IF TRANSFORMERS_AVAILABLE
           THEN AreasOrSentinel(out.result, "General Regulatory",
                                NoCategory(impact_categories, out.content, RelevanceThreshold))
           ELSE AreasOrSentinel(out.result, "General",
                                NoCategory(rule_areas, out.content, 1))
    /\ ChangesHaveAreas

\* analyze_impact_areas without the transformers library returned the
\* sentinel of the rule-based analysis for a text without any keyword.
C15_Witness ==
    /\ Done("analyze_impact_areas")
    /\ ~TRANSFORMERS_AVAILABLE
    /\ out.content = ContentPlain
    /\ out.result = <<"General">>

(***************************************************************************)
(* The two impact-area variants.                                           *)
(***************************************************************************)
\* The keywords of the list that occur in the content, both lower-cased.
CountIgnoringCase(content, keywords) ==
    Cardinality({ i \in DOMAIN keywords : Contains(Lower(content), Lower(keywords[i])) })

\* The name is an element of the list.
Emits(list, name) == \E i \in DOMAIN list : list[i] = name

\* C16: with the transformers library available, analyze_impact_areas emits
\* a category exactly when at least two of its keywords occur in the content,
\* compared without regard to case; identify_impact_areas emits a category
\* exactly when at least one of its keywords occurs.
C16_StrictVariantIgnoresCase ==
    /\ (Done("analyze_impact_areas") /\ TRANSFORMERS_AVAILABLE) =>
           \A i \in DOMAIN impact_categories :
               Emits(out.result, impact_categories[i].category)
                   <=> CountIgnoringCase(out.content, impact_categories[i].keywords) >= 2
    /\ Done("identify_impact_areas") =>
           \A i \in DOMAIN areas :
               Emits(out.result, areas[i].area)
                   <=> CountIgnoringCase(out.content, areas[i].keywords) >= 1

(***************************************************************************)
(* The learned risk assessment and its fallback.                           *)
(***************************************************************************)
\* C17: when the sentiment pipeline is absent, raises, or returns malformed
\* output (an empty list, no 'score', a 'score' that is no number),
\* assess_urgency_level returns the result of _rule_based_risk_assessment
\* on title + ' ' + content: same risk level, confidence and reasoning.
C17_FallbackOnAnyFailure ==
    (Done("assess_urgency_level") /\ (~sentiment_analyzer \/ ~WellFormedReply(out.reply)))
        => out.result = rule_based_risk_assessment(out.title \o <<" ">> \o out.content)

\* The pipeline is loaded and returned a numeric score for the call.
Scored == Done("assess_urgency_level") /\ sentiment_analyzer /\ WellFormedReply(out.reply)

\* The text of the call: title, a space, content.
CallText == out.title \o <<" ">> \o out.content

\* C18 as stated: with score s the result is 'high' if s < 0.3 or an urgent
\* keyword is present, otherwise 'medium' if s < 0.6, otherwise 'low'.
C18_ThresholdsOnScoreAlone ==
    Scored =>
        out.result.risk_level =
            IF out.reply.score.percent < 30 \/ HasTerm(CallText, urgent_keywords) THEN "high"
            ELSE IF out.reply.score.percent < 60 THEN "medium"
            ELSE "low"

\* C18 amended: with score s the result is 'high' if s < 0.3 or an urgent
\* keyword is present, otherwise 'medium' if s < 0.6 or a high-priority
\* keyword is present, otherwise 'low'.
C18_ThresholdsAndPriorityKeywords ==
    Scored =>
        out.result.risk_level =
            IF out.reply.score.percent < 30 \/ HasTerm(CallText, urgent_keywords) THEN "high"
            ELSE IF out.reply.score.percent < 60 \/ HasTerm(CallText, high_priority_keywords)
                 THEN "medium"
            ELSE "low"

\* A text with the high-priority keyword 'safety', no urgent keyword and
\* score 1.0 is assessed medium.
C18_Witness ==
    /\ Scored
    /\ out.title = TitleUpdate
    /\ out.content = ContentSafety
    /\ out.reply.score = Float(100)
    /\ ~HasTerm(CallText, urgent_keywords)
    /\ out.result.risk_level = "medium"

(***************************************************************************)
(* Action items.                                                           *)
(***************************************************************************)
\* The risk level and the area list generate_action_items was called with.
CallRisk == Get(out.change_data, "risk_level", "medium")
CallAreas == Get(out.change_data, "impact_areas", <<>>)

\* The list before any cap: urgent actions if the risk is high, the actions
\* of the areas in list order, the two closing actions.
Uncapped ==
    (IF CallRisk = "high" THEN urgent_actions ELSE <<>>)
        \o areas_actions(CallAreas) \o general_actions

\* C19: generate_action_items returns the first 6 entries of the urgent
\* actions (if the risk is high), the area actions in the order of the area
\* list and the two closing actions: at most 6 entries, cut from the end
\* only, and with risk high the two urgent actions come first.
C19_CapKeepsPriority ==
    Done("generate_action_items") =>
        /\ Len(out.result) <= 6
        /\ Len(out.result) = Min(6, Len(Uncapped))
        /\ out.result = SubSeq(Uncapped, 1, Len(out.result))
        /\ CallRisk = "high" =>
               /\ out.result[1] = "IMMEDIATE: Convene emergency compliance review within 24 hours"
               /\ out.result[2] =
                      "URGENT: Notify all stakeholders and halt affected processes if necessary"

\* High risk and three areas of two actions each: ten actions before the
\* cap, six returned, the urgent ones first and the closing ones cut.
C19_Witness ==
    /\ Done("generate_action_items")
    /\ CallRisk = "high"
    /\ CallAreas = <<"Labeling", "Manufacturing", "Marketing">>
    /\ Len(Uncapped) = 10
    /\ Len(out.result) = 6
    /\ out.result[1] = urgent_actions[1]
    /\ out.result[3] = "Review and update all product labeling materials"
    /\ out.result[6] = "Update quality control procedures"

\* The six categories the classifiers emit.
CategoryNames == AreaNames \ Sentinels

\* C20: where the cap cuts nothing, every category in the area list
\* (Regulatory Affairs included) adds at least one and at most two actions
\* to the urgent and closing actions, and the result depends on the risk
\* level and the area list only.
C20_EveryAreaContributes ==
    (Done("generate_action_items") /\ Len(out.result) < 6
        /\ \A i \in DOMAIN CallAreas : CallAreas[i] \in CategoryNames)
        => LET k == Len(out.result) - (IF CallRisk = "high" THEN 2 ELSE 0) - 2
           IN  /\ Len(CallAreas) <= k
               /\ k <= 2 * Len(CallAreas)
               /\ out.result = generate_action_items([risk_level |-> CallRisk,
                                                      impact_areas |-> CallAreas])

(***************************************************************************)
(* Frame conditions of the snapshot store.                                 *)
(***************************************************************************)
\* C22: an update replaces content, content_hash and last_updated of the
\* URL's row and nothing else: id, source, title and created_at keep the
\* values written at creation, also when the item's source or title differ.
C22_UpdateFrame ==
    [][\A c \in Conns :
          UpdatedCase(c) =>
              LET u == CurrentItem(c).url
                  before == RowOf(DocsBefore(c), u)
                  after == RowOf(DocsAfter(c), u)
              IN  /\ after = [before EXCEPT
                                  !.content = CurrentItem(c).content,
                                  !.content_hash = calculate_content_hash(CurrentItem(c).content),
                                  !.last_updated = now]
                  /\ after.id = before.id
                  /\ after.source = before.source
                  /\ after.title = before.title
                  /\ after.created_at = before.created_at]_vars

\* A row created by one source and title was updated later by an item with
\* another source and title: it keeps the first ones and its created_at.
C22_Witness ==
    /\ tx[1].active
    /\ UrlStored(tx[1].docs, Url1)
    /\ RowOf(tx[1].docs, Url1).created_at < RowOf(tx[1].docs, Url1).last_updated
    /\ RowOf(tx[1].docs, Url1).title = TitleRecall
    /\ RowOf(tx[1].docs, Url1).source = "FDA_DRUGS"
    /\ RowOf(tx[1].docs, Url1).content = ContentDose2
    /\ detected[1] # <<>>
    /\ detected[1][Len(detected[1])].title = TitleUpdate
    /\ detected[1][Len(detected[1])].change_type = "updated"


(***************************************************************************)
(* The query of the change log.                                            *)
(***************************************************************************)
\* The query returned a list.
Recent == Done("get_recent_changes")

\* The time before which the query of the last call ignores the log.
Cutoff == out.at - out.days

\* The log rows later than the cutoff.
Later == { i \in DOMAIN changes : changes[i].detected_at > Cutoff }

\* C21: get_recent_changes(days) returns exactly the log rows whose
\* detected_at is later than now - days, each once and no others, from the
\* newest to the oldest, each with its columns as stored and impact_areas
\* decoded to the ordered list that detect_changes produced for the change.
C21_RecentChanges ==
    Recent =>
        LET result == out.result
        IN  /\ Len(result) = Cardinality(Later)
            /\ \A i \in Later : \E k \in DOMAIN result : result[k].id = changes[i].id
            /\ \A k \in DOMAIN result :
                   /\ result[k].id \in Later
                   /\ result[k] = [changes[result[k].id] EXCEPT
                                       !.impact_areas = result[k].impact_areas]
                   /\ json_dumps(result[k].impact_areas)
                          = changes[result[k].id].impact_areas
            /\ \A j, k \in DOMAIN result :
                   j < k => result[j].detected_at >= result[k].detected_at
            /\ (pc[1] = "returned" =>
                   \A i \in DOMAIN detected[1] :
                       \A k \in DOMAIN result :
                           result[k].id = Len(changes) - Len(detected[1]) + i
                               => result[k].impact_areas = detected[1][i].impact_areas)

\* The query returned two changes of a scan, the newer first, the first with
\* two impact areas, and left out an older row of the log.
C21_Witness ==
    /\ Recent
    /\ pc[1] = "returned"
    /\ Len(out.result) = 2
    /\ Len(changes) > 2
    /\ Len(detected[1]) = 2
    /\ out.result[1].detected_at > out.result[2].detected_at
    /\ out.result[1].id = Len(changes)
    /\ Len(out.result[1].impact_areas) >= 2

(***************************************************************************)
(* Snapshots are kept.                                                     *)
(***************************************************************************)
\* The URLs of the rows of a table.
StoredUrls(table) == { table[i].url : i \in DOMAIN table }

\* The URLs that occur in a batch.
BatchUrls(b) == { b[i].url : i \in { j \in DOMAIN b : HasKey(b[j], "url") } }

\* The URLs stored when the call of c began that its batch does not name.
Bystanders(c) == StoredUrls(call[c].docs) \ BatchUrls(batch[c])

\* During and after the call of c the row of every bystander is the row the
\* call found, in what c reads and in what is committed, and the call has
\* built no change for it.
BystandersKept(c) ==
    pc[c] # "idle" =>
        \A u \in Bystanders(c) :
            /\ UrlStored(View(c).docs, u)
            /\ RowOf(View(c).docs, u) = RowOf(call[c].docs, u)
            /\ UrlStored(docs, u)
            /\ RowOf(docs, u) = RowOf(call[c].docs, u)
            /\ \A i \in DOMAIN detected[c] : detected[c][i].url # u
            /\ RowsOf(changes, u) = RowsOf(call[c].changes, u)

\* Every change built or logged is a first sight or an update.
NoneRemoved ==
    /\ \A i \in DOMAIN changes : changes[i].change_type \in {"new", "updated"}
    /\ \A c \in Conns : \A i \in DOMAIN detected[c] :
           detected[c][i].change_type \in {"new", "updated"}

\* C23: no step of detect_changes or get_recent_changes removes a stored
\* URL, in the committed table or in what the caller reads short of a
\* rollback of its own inserts; get_recent_changes writes nothing; a stored
\* URL that the batch does not name keeps its row through the call and no
\* change is built or logged for it; no change is of type 'removed'.
C23_NeverDeleted ==
    [][/\ StoredUrls(docs) \subseteq StoredUrls(docs')
       /\ Len(docs) <= Len(docs')
       /\ \A c \in Conns :
             StoredUrls(call[c].docs) \subseteq StoredUrls(View(c).docs)
       /\ (Recent' /\ ~Recent => docs' = docs /\ changes' = changes /\ tx' = tx)
       /\ \A c \in Conns : BystandersKept(c)'
       /\ NoneRemoved']_vars

\* A scan of a batch that names only the second URL returned with a change
\* while the first URL was stored; its row is the one the scan found.
C23_Witness ==
    /\ pc[1] = "returned"
    /\ Bystanders(1) = {Url1}
    /\ BatchUrls(batch[1]) = {Url2}
    /\ Len(detected[1]) >= 1
    /\ RowOf(docs, Url1) = RowOf(call[1].docs, Url1)
    /\ Len(docs) = 2

(***************************************************************************)
(* A call that raises.                                                     *)
(***************************************************************************)
\* The call of c has raised, and the exception may have left it already.
Raised(c) == pc[c] \in {"raised", "failed"}

\* C26: when detect_changes raises at an item, the only thing that follows
\* in the call is the rollback of its transaction; while the exception
\* propagates and after it, both committed tables are what they were when
\* the call began, whatever the call inserted or updated for the items
\* before, and no transaction of the call is left to commit.
C26_AllOrNothing ==
    [][\A c \in SeqConns :
          /\ (pc[c] = "raised" /\ pc'[c] # "raised")
                 => /\ pc'[c] = "failed"
                    /\ ~tx'[c].active
                    /\ docs' = docs /\ changes' = changes
          /\ Raised(c)' => /\ docs' = call'[c].docs
                           /\ changes' = call'[c].changes
          /\ pc'[c] = "failed" => ~tx'[c].active /\ lock' # c]_vars

\* The call raised at its second item after it inserted a snapshot and built
\* a change for the first; neither is committed.
C26_Witness ==
    /\ pc[1] = "raised"
    /\ idx[1] = 2
    /\ tx[1].active
    /\ Len(tx[1].docs) = Len(docs) + 1
    /\ Len(detected[1]) = 1
    /\ docs = call[1].docs

(***************************************************************************)
(* A URL twice in one batch.                                               *)
(***************************************************************************)
\* The call of c has a batch of two well-formed items with one URL that was
\* not stored when the call began.
DuplicateCall(c) ==
    /\ pc[c] # "idle"
    /\ Len(batch[c]) = 2
    /\ WellFormed(batch[c][1]) /\ WellFormed(batch[c][2])
    /\ batch[c][1].url = batch[c][2].url
    /\ ~UrlStored(call[c].docs, batch[c][1].url)

\* The second item of the batch of c has been processed.
BothProcessed(c) == pc[c] \in {"store", "commit", "returned"}

\* C27: in a call whose batch names a URL twice that was not stored, the
\* first occurrence yields a 'new' change; the second yields nothing when
\* its content is the first's, and an 'updated' change whose content is the
\* diff of the first occurrence's content against its own when it differs;
\* one row is stored for the URL, with the second content; the call never
\* raises.
C27_DuplicateUrl ==
    \A c \in SeqConns :
        DuplicateCall(c) =>
            LET first == batch[c][1]
                second == batch[c][2]
            IN  /\ ~Raised(c)
                /\ BothProcessed(c) =>
                       /\ detected[c][1].change_type = "new"
                       /\ detected[c][1].url = first.url
                       /\ detected[c][1].content = first.content
                       /\ (second.content = first.content => Len(detected[c]) = 1)
                       /\ (second.content # first.content =>
                              /\ Len(detected[c]) = 2
                              /\ detected[c][2].change_type = "updated"
                              /\ detected[c][2].url = second.url
                              /\ detected[c][2].content
                                     = generate_diff(first.content, second.content))
                       /\ Len(RowsOf(View(c).docs, first.url)) = 1
                       /\ RowOf(View(c).docs, first.url).content = second.content

\* The call returned a 'new' and an 'updated' change for the two occurrences
\* of a URL whose contents differ.
C27_Witness ==
    /\ DuplicateCall(1)
    /\ pc[1] = "returned"
    /\ batch[1][1].content = ContentDose1
    /\ batch[1][2].content = ContentDose2
    /\ Len(detected[1]) = 2
    /\ detected[1][2].change_type = "updated"

(***************************************************************************)
(* Two calls that see a URL for the first time.                            *)
(***************************************************************************)
\* Both connections have a call with a batch of well-formed items that names
\* u, and u was stored when neither call began.
FirstSight(u) ==
    \A c \in Conns :
        /\ pc[c] # "idle"
        /\ u \in BatchUrls(batch[c])
        /\ \A i \in DOMAIN batch[c] : WellFormed(batch[c][i])
        /\ ~UrlStored(call[c].docs, u)

\* C30: when both calls have a URL in their batches that was stored when
\* neither began, no call raises, and once both have returned one row is
\* stored for the URL.
C30_ConcurrentFirstSight ==
    \A u \in URLs :
        FirstSight(u) =>
            /\ \A c \in Conns : ~Raised(c)
            /\ (\A c \in Conns : pc[c] = "returned") => Len(RowsOf(docs, u)) = 1

(***************************************************************************)
(* The diff of an update.                                                  *)
(***************************************************************************)
\* The lines of a diff that add or remove a line of content: they begin
\* with "+" or "-" and are not the file header lines "+++ " and "--- ".
ChangedLines(diff) ==
    LET lines == splitlines(diff)
    IN  { i \in DOMAIN lines :
            /\ lines[i] # <<>>
            /\ lines[i][1] \in {"+", "-"}
            /\ lines[i] \notin { <<"-","-","-"," ">>, <<"+","+","+"," ">> } }

\* C28: whenever a step classifies an item as updated, the change it emits
\* carries a diff with at least one added or removed line.
C28_NonEmptyDiff ==
    [][\A c \in SeqConns :
          (UpdatedCase(c) /\ Records(c)) =>
              /\ Emitted(c).change_type = "updated"
              /\ Emitted(c).content # <<>>
              /\ ChangedLines(Emitted(c).content) # {}]_vars

(***************************************************************************)
(* The rule-based summary.                                                 *)
(***************************************************************************)
\* The '.'-separated sentences of a content whose stripped length exceeds
\* 10 characters, stripped.
Qualifying(content) == fallback_sentences(content)

\* The first two of them joined by ". " and closed by a full stop.
JoinedFirstTwo(content) ==
    Join(Prefix(Qualifying(content), 2), <<".", " ">>) \o <<".">>

\* A text cut to n characters and followed by an ellipsis when it is longer.
Ellipsized(text, n) ==
    IF Len(text) > n THEN Prefix(text, n) \o <<".", ".", ".">> ELSE text

\* C24 as stated: for every content, also one with no more than two
\* qualifying sentences, _fallback_summary returns the first two qualifying
\* sentences joined, cut to 250 characters with an ellipsis when longer.
C24_FallbackAnyContent ==
    Done("_fallback_summary") =>
        out.result = Ellipsized(JoinedFirstTwo(out.content), 250)

\* C24: for a content with more than two qualifying sentences
\* _fallback_summary returns the first two joined, cut to 250 characters
\* with an ellipsis when longer; for a content with at most two it returns
\* the content itself, cut to 200 characters with an ellipsis when longer.
C24_FallbackSummary ==
    Done("_fallback_summary") =>
        out.result = IF Len(Qualifying(out.content)) > 2
                     THEN Ellipsized(JoinedFirstTwo(out.content), 250)
                     ELSE Ellipsized(out.content, 200)

\* The summary of three long sentences was cut to 250 characters and an
\* ellipsis.
C24_Witness ==
    /\ Done("_fallback_summary")
    /\ out.content = ContentLong3
    /\ Len(Qualifying(out.content)) = 3
    /\ Len(out.result) = 253
    /\ SubSeq(out.result, 251, 253) = <<".", ".", ".">>

(***************************************************************************)
(* The enhancer without models.                                            *)
(***************************************************************************)
\* No pipeline is loaded: the library is missing or _load_models failed at
\* the first of them.
NoModel == ~summarizer /\ ~classifier /\ ~sentiment_analyzer

\* The summary and the urgency of the call are those of the rule-based
\* fallbacks.
SummaryAndUrgencyFallBack ==
    /\ Done("generate_smart_summary") => out.result = fallback_summary(out.content)
    /\ Done("assess_urgency_level") =>
           out.result = rule_based_risk_assessment(out.title \o <<" ">> \o out.content)

\* The categories of impact_categories with at least two keywords in the
\* lower-cased content, or 'General Regulatory' when there is none.
KeywordCountAnalysis(content) ==
    IF detected_areas(impact_categories, Lower(content), 1) # <<>>
    THEN detected_areas(impact_categories, Lower(content), 1)
    ELSE <<"General Regulatory">>

\* C25 as stated: whenever no model is loaded, with or without the library,
\* generate_smart_summary, assess_urgency_level and analyze_impact_areas
\* return what _fallback_summary, _rule_based_risk_assessment and
\* _rule_based_impact_analysis return.
C25_UniformDegradation ==
    NoModel =>
        /\ SummaryAndUrgencyFallBack
        /\ Done("analyze_impact_areas") =>
               out.result = rule_based_impact_analysis(out.content)

\* C25: whenever no model is loaded, generate_smart_summary and
\* assess_urgency_level return what _fallback_summary and
\* _rule_based_risk_assessment return; analyze_impact_areas returns what
\* _rule_based_impact_analysis returns when the library is missing, and the
\* two-keyword count over its own categories when the library is present.
C25_Degradation ==
    NoModel =>
        /\ SummaryAndUrgencyFallBack
        /\ Done("analyze_impact_areas") =>
               out.result = IF TRANSFORMERS_AVAILABLE
                            THEN KeywordCountAnalysis(out.content)
                            ELSE rule_based_impact_analysis(out.content)

\* With the library present and no model loaded, a content long enough for
\* the summarizer got the rule-based summary.
C25_Witness ==
    /\ NoModel
    /\ TRANSFORMERS_AVAILABLE
    /\ Done("generate_smart_summary")
    /\ out.content = ContentNotes
    /\ out.reply.kind = "summary"
    /\ out.result = JoinedFirstTwo(ContentNotes)

(***************************************************************************)
(* The enhanced records.                                                   *)
(***************************************************************************)
\* process_changes_with_ai was called with well-formed items only, and the
\* call has ended.
Processed ==
    /\ Done("process_changes_with_ai")
    /\ \A i \in DOMAIN out.scraped_data : WellFormed(out.scraped_data[i])

\* C29: for every list of well-formed items process_changes_with_ai returns
\* normally one enhanced record per item, in input order, each with a
\* risk_level among low, medium and high, a non-empty impact_areas list, a
\* detected_at timestamp and at most 6 action items; both tables are as
\* they were.
C29_ProcessChanges ==
    Processed =>
        /\ out.result.raised = "no"
        /\ Len(out.result.value) = Len(out.scraped_data)
        /\ \A i \in DOMAIN out.scraped_data :
               LET record == out.result.value[i]
               IN  /\ record.url = out.scraped_data[i].url
                   /\ record.title = out.scraped_data[i].title
                   /\ record.risk_level \in {"low", "medium", "high"}
                   /\ record.impact_areas # <<>>
                   /\ "detected_at" \in DOMAIN record
                   /\ Len(record.action_items) <= 6
        /\ docs = <<>> /\ changes = <<>>
====
